---- MODULE Spec2Model ----
(***************************************************************************)
(* The route / marker store of src/server.js (the database module that the *)
(* server imports as ./models/database.js), modelled as a state machine.   *)
(*                                                                         *)
(* Conventions                                                             *)
(*   - a JS string is a sequence of one-token strings (<<"a","b">> is     *)
(*     'ab', <<>> is ''); non-ASCII literals of the source are written    *)
(*     with an ASCII stand-in, named where they are defined;               *)
(*   - a JS object is a function from its keys to their values, so a key   *)
(*     that is absent (undefined) is a key outside DOMAIN;                 *)
(*   - a table is the set of its rows, a row a record of its columns;      *)
(*   - a JSON value is a tagged record: [t |-> "num"], [t |-> "arr"], and  *)
(*     [t |-> "str"] for a JS string that was not parsed.                  *)
(***************************************************************************)
EXTENDS Integers, Sequences, FiniteSets, TLC

VARIABLES
    db,            \* the module-level handle `let db`: TRUE once connected
    routes,        \* table routes
    markers,       \* table route_markers
    lastRouteId,   \* sqlite_sequence of routes (AUTOINCREMENT)
    lastMarkerId,  \* sqlite_sequence of route_markers
    now,           \* CURRENT_TIMESTAMP / Date.now()
    search,        \* the searchRoutesFromDB call between its two statements
    res,           \* how the last call settled
    users,         \* table users
    boot,          \* how far initDatabase and the server's start have come
    req            \* the HTTP request the middleware last handled

vars == <<db, routes, markers, lastRouteId, lastMarkerId, now, search, res, users, boot, req>>

\* the state of the start-up and of the HTTP layer, which the store's
\* operations leave alone
bootVars == <<users, boot, req>>

---------------------------------------------------------------------------
\* Bounds of the model

\* ids the routes table may hand out
MaxRouteId == 2
\* ids the route_markers table may hand out
MaxMarkerId == 2
\* the last value of the clock
MaxTime == 1
\* the largest page a search asks for
MaxPage == 3
\* the largest page size a search asks for
MaxLimit == 2

---------------------------------------------------------------------------
\* JS values

Min(a, b) == IF a < b THEN a ELSE b
Max(a, b) == IF a > b THEN a ELSE b

\* String(n) for the small naturals the model uses
NumToks == <<"0", "1", "2", "3", "4", "5", "6", "7", "8", "9">>
NumTok(n) == NumToks[n + 1]
IsNumTok(t) == \E i \in 1..Len(NumToks) : NumToks[i] = t
TokNum(t) == (CHOOSE i \in 1..Len(NumToks) : NumToks[i] = t) - 1

JNum(n) == [t |-> "num", v |-> n]
JArr(s) == [t |-> "arr", v |-> s]
JStr(s) == [t |-> "str", v |-> s]

\* The object with no keys, {}
EmptyObject == [k \in {} |-> 0]

\* { ...base, ...over }
Spread(base, over) ==
    [k \in (DOMAIN base) \cup (DOMAIN over) |->
        IF k \in DOMAIN over THEN over[k] ELSE base[k]]

\* obj without key k
Without(obj, k) == [x \in (DOMAIN obj) \ {k} |-> obj[x]]

\* const { k = d } = obj
Destructure(obj, k, d) == IF k \in DOMAIN obj THEN obj[k] ELSE d

\* !obj.k for a string-valued key and for a number-valued key
FalsyText(obj, k) == k \notin DOMAIN obj \/ obj[k] = <<>>
FalsyNum(obj, k) == k \notin DOMAIN obj \/ obj[k] = 0

\* JSON.stringify of a JSON value, as a token sequence
RECURSIVE JSONstringify(_)
RECURSIVE JoinElems(_)
JSONstringify(j) ==
    IF j.t = "num" THEN <<NumTok(j.v)>>
    ELSE <<"[">> \o JoinElems(j.v) \o <<"]">>
JoinElems(s) ==
    IF s = <<>> THEN <<>>
    ELSE JSONstringify(Head(s))
         \o (IF Len(s) > 1 THEN <<",">> \o JoinElems(Tail(s)) ELSE <<>>)

\* JSON.parse: a recursive-descent parse of the token sequence;
\* [ok |-> FALSE] is the SyntaxError it throws
ParseFail == [ok |-> FALSE]
RECURSIVE ParseValue(_)
RECURSIVE ParseElems(_, _)
ParseValue(ts) ==
    IF ts = <<>> THEN ParseFail
    ELSE IF Head(ts) = "[" THEN
        IF Len(ts) >= 2 /\ ts[2] = "]"
        THEN [ok |-> TRUE, val |-> JArr(<<>>), rest |-> SubSeq(ts, 3, Len(ts))]
        ELSE ParseElems(Tail(ts), <<>>)
    ELSE IF IsNumTok(Head(ts))
        THEN [ok |-> TRUE, val |-> JNum(TokNum(Head(ts))), rest |-> Tail(ts)]
    ELSE ParseFail
ParseElems(ts, acc) ==
    LET r == ParseValue(ts) IN
    IF ~r.ok THEN ParseFail
    ELSE IF r.rest = <<>> THEN ParseFail
    ELSE IF Head(r.rest) = ","
        THEN ParseElems(Tail(r.rest), Append(acc, r.val))
    ELSE IF Head(r.rest) = "]"
        THEN [ok |-> TRUE, val |-> JArr(Append(acc, r.val)), rest |-> Tail(r.rest)]
    ELSE ParseFail
JSONparse(ts) ==
    LET r == ParseValue(ts) IN
    IF r.ok /\ r.rest = <<>> THEN [ok |-> TRUE, val |-> r.val] ELSE ParseFail

\* faulty variant: the column is returned unparsed as an empty list
ParseSkipped(text) == [ok |-> TRUE, val |-> JArr(<<>>)]

\* row.col ? JSON.parse(row.col) : []
ParseOrEmpty(text) == IF text = <<>> THEN [ok |-> TRUE, val |-> JArr(<<>>)] ELSE JSONparse(text)

---------------------------------------------------------------------------
\* SQL text matching

\* SQLite's LIKE folds ASCII case
Fold(c) == IF c = "A" THEN "a" ELSE IF c = "B" THEN "b" ELSE c

\* text LIKE pattern: '%' matches any run, '_' any one character
RECURSIVE Like(_, _)
Like(text, pattern) ==
    IF pattern = <<>> THEN text = <<>>
    ELSE IF Head(pattern) = "%"
        THEN Like(text, Tail(pattern)) \/ (text # <<>> /\ Like(Tail(text), pattern))
    ELSE IF text = <<>> THEN FALSE
    ELSE (Head(pattern) = "_" \/ Fold(Head(pattern)) = Fold(Head(text)))
         /\ Like(Tail(text), Tail(pattern))

\* String.prototype.trim
RECURSIVE TrimStart(_)
TrimStart(s) == IF s # <<>> /\ Head(s) = " " THEN TrimStart(Tail(s)) ELSE s
RECURSIVE TrimEnd(_)
TrimEnd(s) ==
    IF s # <<>> /\ s[Len(s)] = " " THEN TrimEnd(SubSeq(s, 1, Len(s) - 1)) ELSE s
Trim(s) == TrimEnd(TrimStart(s))

---------------------------------------------------------------------------
\* Schema (createTables) and the connection (connectDatabase)

\* connectDatabase opens the file and issues no PRAGMA foreign_keys = ON, and
\* SQLite leaves foreign keys off on a new connection: the FOREIGN KEY ... ON
\* DELETE CASCADE clause of route_markers is declared and not enforced.
ForeignKeysEnabled == FALSE

\* route_type TEXT DEFAULT 'driving'
RouteTypeDefault == <<"driving">>
\* the district_type default; "qu" stands for the source's one-character literal
DistrictTypeDefault == <<"qu">>
\* created_by TEXT DEFAULT 'system' of the routes table
SchemaCreatedByDefault == <<"system">>
\* the created_by default of saveRouteToDB; "route_planner" stands for the
\* source's five-character literal
CreatedByDefault == <<"route_planner">>
\* the name default of saveRouteToDB, a prefix and new Date().getTime();
\* "route_" stands for the source's prefix
NameDefault == <<"route_", NumTok(now)>>
\* steps = '[]'
StepsDefault == <<"[", "]">>

\* Error messages
ErrNotConnected == "db_not_connected"
ErrRouteRequired == "route_required_fields"
ErrMarkerRequired == "marker_required_fields"
ErrNoUpdateFields == "no_valid_update_fields"
ErrRouteNotFound == "route_not_found"
ErrConstraint == "SQLITE_CONSTRAINT"
ErrTypeError == "TypeError"
\* the err a statement's callback is given when the statement fails
ErrStatement == "SQLITE_ERROR"

RouteById(id) == {r \in routes : r.id = id}
\* faulty variant: the statement without its WHERE id = ?
MarkerByIdUnfiltered(id) == markers
MarkerById(id) == {m \in markers : m.id = id}

---------------------------------------------------------------------------
\* Inputs

\* structured values a caller serializes, and their serializations
WaypointsValue1 == JArr(<<JArr(<<JNum(1), JNum(2)>>), JArr(<<JNum(3), JNum(4)>>)>>)
StepsValue1 == JArr(<<JArr(<<JNum(5)>>), JArr(<<>>)>>)
PolylineValue1 == JArr(<<JArr(<<JNum(1), JNum(2)>>)>>)
Waypoints1 == JSONstringify(WaypointsValue1)
Steps1 == JSONstringify(StepsValue1)
Polyline1 == JSONstringify(PolylineValue1)
\* a text that is no JSON
NotJSON == <<"x">>

RouteMinimal ==
    [name |-> <<"A">>, waypoints |-> Waypoints1,
     start_lng |-> 1, start_lat |-> 2, end_lng |-> 3, end_lat |-> 4]
RouteFull ==
    Spread(RouteMinimal,
           [name |-> <<"b">>, city |-> <<"c", "d">>, created_by |-> <<"u">>,
            steps |-> Steps1, polyline |-> Polyline1])
\* a route whose waypoints are no JSON
RouteNotJSON == Spread(RouteMinimal, [waypoints |-> NotJSON])
RouteInputs ==
    { RouteMinimal, RouteFull, RouteNotJSON,
      Without(RouteMinimal, "name"), Without(RouteMinimal, "waypoints"),
      Without(RouteMinimal, "start_lng"), Without(RouteMinimal, "end_lng"),
      Without(RouteMinimal, "start_lat") }

\* a route update with keys on the allow-list and keys off it
RouteUpdateMixed ==
    [name |-> <<"b">>, intersections |-> 2, id |-> 9, created_at |-> 9, bogusField |-> 1]
RouteUpdates == { RouteUpdateMixed, [bogusField |-> 1], EmptyObject }

MarkerMinimal == [lng |-> 1, lat |-> 2, name |-> <<"m">>]
MarkerInputs ==
    { MarkerMinimal, Without(MarkerMinimal, "lng"),
      Without(MarkerMinimal, "lat"), Without(MarkerMinimal, "name") }

\* a marker update with keys on the allow-list and keys off it
MarkerUpdateMixed == [importance |-> 2, route_id |-> 2, id |-> 9]
MarkerUpdates == { MarkerUpdateMixed, [bogusField |-> 1], EmptyObject }

Keywords == { <<>>, <<"a">>, <<" ">>, <<"z">> }

RouteIds == 1..MaxRouteId
MarkerIds == 1..MaxMarkerId

---------------------------------------------------------------------------
\* How a call settles: the promise's outcome, the error or value it carries,
\* the statements the call issued, and the arguments it was called with

Settled(op, outcome, err, sql, arg, val) ==
    [op |-> op, outcome |-> outcome, err |-> err, sql |-> sql, arg |-> arg, val |-> val]
Resolved(op, sql, arg, val) == Settled(op, "resolved", "none", sql, arg, val)
Rejected(op, err, sql, arg) == Settled(op, "rejected", err, sql, arg, <<>>)
\* an exception thrown in a statement's callback: the promise never settles
Uncaught(op, err, sql, arg) == Settled(op, "uncaught", err, sql, arg, <<>>)

NoSearch == [phase |-> "idle"]

\* the in-flight search after a statement that leaves the routes table as t:
\* it remembers whether the table changed under it
SearchAfter(t) ==
    IF search.phase = "counted" /\ t # routes
    THEN [search EXCEPT !.dirty = TRUE] ELSE search

---------------------------------------------------------------------------
\* Start-up: the users table and the steps of initDatabase

\* bcrypt.hash(password, 10)
Hash(password) == <<"bcrypt">> \o password

\* const adminUsername = 'admin'; const adminPassword = 'admin123'
AdminUsername == <<"admin">>
AdminPassword == <<"admin123">>
\* const readOnlyUsers = [...]
ReadOnlyUsers ==
    << [username |-> <<"viewer1">>, password |-> <<"view123">>],
       [username |-> <<"viewer2">>, password |-> <<"view456">>],
       [username |-> <<"viewer3">>, password |-> <<"view789">>] >>

\* the tables createTables creates, in the order of its statements
TableOrder == <<"routes", "route_markers", "users">>

\* INSERT INTO users (username, password_hash, is_admin) VALUES (?, ?, ?) on
\* the table t: the row, with the id the store assigns (created_at, which no
\* statement of the program reads, is left out)
UserRow(t, username, hash, isAdmin) ==
    [id |-> Cardinality(t) + 1, username |-> username, password_hash |-> hash,
     is_admin |-> isAdmin]

\* username TEXT UNIQUE
UsernameTaken(t, username) == \E u \in t : u.username = username

\* an INSERT that adds its row whatever the table holds
InsertUnchecked(t, username, hash, isAdmin) == t \cup {UserRow(t, username, hash, isAdmin)}

\* INSERT OR IGNORE INTO users ...
InsertOrIgnore(t, username, hash, isAdmin) ==
    IF UsernameTaken(t, username) THEN t
    ELSE t \cup {UserRow(t, username, hash, isAdmin)}

\* the users table after ensureAdminUser and createReadOnlyUsers, every
\* statement completing in the order it was issued
RECURSIVE WithReadOnlyUsers(_, _)
WithReadOnlyUsers(t, k) ==
    IF k > Len(ReadOnlyUsers) THEN t
    ELSE WithReadOnlyUsers(
            InsertOrIgnore(t, ReadOnlyUsers[k].username, Hash(ReadOnlyUsers[k].password), 0),
            k + 1)
SeededUsers(t) ==
    WithReadOnlyUsers(InsertOrIgnore(t, AdminUsername, Hash(AdminPassword), 1), 1)

\* no HTTP request has arrived
NoRequest == [stage |-> "none"]

\* before initDatabase is called; seeding is the position of the callbacks
\* of server.js's own connection
BootIdle ==
    [pc |-> "start", tables |-> {}, adminInsert |-> "none", viewers |-> 0,
     settled |-> "pending", listening |-> FALSE, seeding |-> "start"]
\* initDatabase resolved, every statement completed
BootCompleted ==
    [pc |-> "end", tables |-> {TableOrder[i] : i \in 1..Len(TableOrder)},
     adminInsert |-> "done", viewers |-> Len(ReadOnlyUsers),
     settled |-> "resolved", listening |-> FALSE, seeding |-> "end"]

Init ==
    /\ users = {}
    /\ boot = BootIdle
    /\ req = NoRequest
    /\ db = FALSE
    /\ routes = {}
    /\ markers = {}
    /\ lastRouteId = 0
    /\ lastMarkerId = 0
    /\ now = 0
    /\ search = NoSearch
    /\ res = Settled("none", "none", "none", <<>>, <<>>, <<>>)

\* initDatabase from its call to its resolve, every statement succeeding and
\* completing in the order it was issued: the handle is set, the tables
\* exist (CREATE TABLE IF NOT EXISTS keeps the rows of a former run) and the
\* default users are in the users table
initDatabase ==
    /\ ~db
    /\ db' = TRUE
    /\ users' = SeededUsers(users)
    /\ boot' = BootCompleted
    /\ res' = Resolved("initDatabase", <<"CREATE routes", "CREATE route_markers", "CREATE users">>, <<>>, <<>>)
    /\ UNCHANGED <<routes, markers, lastRouteId, lastMarkerId, now, search, req>>

\* time passes
Tick ==
    /\ UNCHANGED bootVars
    /\ now < MaxTime
    /\ now' = now + 1
    /\ UNCHANGED <<db, routes, markers, lastRouteId, lastMarkerId, search, res>>

\* the row saveRouteToDB's INSERT writes for routeData, with the id and the
\* timestamps the store assigns
RouteRow(routeData, id) ==
    [ id |-> id,
      name |-> Destructure(routeData, "name", NameDefault),
      description |-> Destructure(routeData, "description", <<>>),
      route_type |-> Destructure(routeData, "route_type", RouteTypeDefault),
      city |-> Destructure(routeData, "city", <<>>),
      district |-> Destructure(routeData, "district", <<>>),
      district_type |-> Destructure(routeData, "district_type", DistrictTypeDefault),
      intersections |-> Destructure(routeData, "intersections", 0),
      right_turns |-> Destructure(routeData, "right_turns", 0),
      left_turns |-> Destructure(routeData, "left_turns", 0),
      u_turns |-> Destructure(routeData, "u_turns", 0),
      roundabouts |-> Destructure(routeData, "roundabouts", 0),
      special_traffic_lights |-> Destructure(routeData, "special_traffic_lights", 0),
      special_intersections |-> Destructure(routeData, "special_intersections", 0),
      created_by |-> Destructure(routeData, "created_by", CreatedByDefault),
      start_lng |-> routeData.start_lng,
      start_lat |-> routeData.start_lat,
      end_lng |-> routeData.end_lng,
      end_lat |-> routeData.end_lat,
      waypoints |-> routeData.waypoints,
      distance |-> Destructure(routeData, "distance", 0),
      duration |-> Destructure(routeData, "duration", 0),
      polyline |-> Destructure(routeData, "polyline", <<>>),
      steps |-> Destructure(routeData, "steps", StepsDefault),
      tolls |-> Destructure(routeData, "tolls", 0),
      traffic_lights |-> Destructure(routeData, "traffic_lights", 0),
      created_at |-> now,
      updated_at |-> now ]

\* if (!name || !waypoints || !start_lng || !end_lng), name after its default
RouteRequiredMissing(routeData) ==
    \/ Destructure(routeData, "name", NameDefault) = <<>>
    \/ FalsyText(routeData, "waypoints")
    \/ FalsyNum(routeData, "start_lng")
    \/ FalsyNum(routeData, "end_lng")

\* start_lat REAL NOT NULL, end_lat REAL NOT NULL: an undefined parameter is
\* bound as NULL (name, start_lng and end_lng are checked before the INSERT)
RouteNotNullViolated(routeData) ==
    "start_lat" \notin DOMAIN routeData \/ "end_lat" \notin DOMAIN routeData

\* resolve({ id: this.lastID, ...routeData })
SaveRouteResult(routeData, lastID) == Spread([id |-> lastID], routeData)

saveRouteToDB(routeData) ==
    /\ UNCHANGED bootVars
    /\ UNCHANGED <<db, markers, lastMarkerId, now>>
    /\ IF ~db THEN
            /\ res' = Rejected("saveRoute", ErrNotConnected, <<>>, routeData)
            /\ UNCHANGED <<routes, lastRouteId>>
       ELSE IF RouteRequiredMissing(routeData) THEN
            /\ res' = Rejected("saveRoute", ErrRouteRequired, <<>>, routeData)
            /\ UNCHANGED <<routes, lastRouteId>>
       ELSE IF RouteNotNullViolated(routeData) THEN
            /\ res' = Rejected("saveRoute", ErrConstraint, <<"INSERT routes">>, routeData)
            /\ UNCHANGED <<routes, lastRouteId>>
       ELSE
            /\ lastRouteId < MaxRouteId
            /\ lastRouteId' = lastRouteId + 1
            /\ routes' = routes \cup {RouteRow(routeData, lastRouteId + 1)}
            /\ res' = Resolved("saveRoute", <<"INSERT routes">>, routeData,
                               SaveRouteResult(routeData, lastRouteId + 1))
    /\ search' = SearchAfter(routes')

\* what getRouteByIdFromDB, getRoutesFromDB and searchRoutesFromDB make of a
\* row whose waypoints and steps parse: the row with these keys replaced
RouteView(row, creatorDefault) ==
    Spread(row,
        [ waypoints |-> ParseOrEmpty(row.waypoints).val,
          steps |-> ParseOrEmpty(row.steps).val,
          polyline |-> JStr(row.polyline),
          creator |-> IF row.created_by = <<>> THEN creatorDefault ELSE row.created_by,
          city |-> row.city,
          district |-> row.district,
          district_type |-> IF row.district_type = <<>> THEN DistrictTypeDefault
                            ELSE row.district_type,
          intersections |-> row.intersections,
          right_turns |-> row.right_turns,
          left_turns |-> row.left_turns,
          u_turns |-> row.u_turns,
          roundabouts |-> row.roundabouts,
          special_traffic_lights |-> row.special_traffic_lights,
          special_intersections |-> row.special_intersections ])

\* JSON.parse throws on the row's waypoints or steps
RowParseThrows(row) == ~ParseOrEmpty(row.waypoints).ok \/ ~ParseOrEmpty(row.steps).ok

getRouteByIdFromDB(id) ==
    /\ UNCHANGED bootVars
    /\ UNCHANGED <<routes, markers, lastRouteId, lastMarkerId, now>>
    /\ IF ~db THEN
            /\ res' = Rejected("getRouteById", ErrNotConnected, <<>>, id)
            /\ UNCHANGED <<db, search>>
       ELSE IF RouteById(id) = {} THEN
            /\ res' = Rejected("getRouteById", ErrRouteNotFound, <<"SELECT routes">>, id)
            /\ UNCHANGED <<db, search>>
       ELSE LET row == CHOOSE r \in RouteById(id) : TRUE IN
            IF RowParseThrows(row) THEN
                \* thrown inside the db.get callback, outside the promise's
                \* executor: nothing catches it and the process ends
                /\ res' = Uncaught("getRouteById", "SyntaxError", <<"SELECT routes">>, id)
                /\ db' = FALSE
                /\ search' = NoSearch
            ELSE
                /\ res' = Resolved("getRouteById", <<"SELECT routes">>, id,
                                   RouteView(row, <<>>))
                /\ UNCHANGED <<db, search>>

\* the allow-list of updateRouteInDB
RouteAllowedFields ==
    { "name", "description", "route_type", "city", "district", "district_type",
      "intersections", "right_turns", "left_turns", "u_turns", "roundabouts",
      "special_traffic_lights", "special_intersections", "created_by",
      "start_lng", "start_lat", "end_lng", "end_lat", "waypoints", "distance",
      "duration", "polyline", "steps", "tolls", "traffic_lights" }

\* faulty variant: every key of the payload is assigned, allow-listed or not
RouteUpdateFieldsUnfiltered(updates) == DOMAIN updates

\* the columns the UPDATE of updateRouteInDB assigns from the payload: the
\* key === 'creator' branch is inside allowedFields.includes(key) and never runs
RouteUpdateFields(updates) == (DOMAIN updates) \cap RouteAllowedFields

\* UPDATE routes SET <fields>, updated_at = CURRENT_TIMESTAMP, on one row
UpdatedRoute(row, updates) ==
    [c \in DOMAIN row |->
        IF c \in RouteUpdateFields(updates) THEN updates[c]
        ELSE IF c = "updated_at" THEN now
        ELSE row[c]]

updateRouteInDB(id, updates) ==
    /\ UNCHANGED bootVars
    /\ UNCHANGED <<db, markers, lastRouteId, lastMarkerId, now>>
    /\ IF ~db THEN
            /\ res' = Rejected("updateRoute", ErrNotConnected, <<>>, [id |-> id, updates |-> updates])
            /\ UNCHANGED routes
       ELSE IF RouteUpdateFields(updates) = {} THEN
            /\ res' = Rejected("updateRoute", ErrNoUpdateFields, <<>>, [id |-> id, updates |-> updates])
            /\ UNCHANGED routes
       ELSE
            /\ routes' = {IF r.id = id THEN UpdatedRoute(r, updates) ELSE r : r \in routes}
            /\ res' = Resolved("updateRoute", <<"UPDATE routes">>, [id |-> id, updates |-> updates],
                               [id |-> id, changes |-> Cardinality(RouteById(id))])
    /\ search' = SearchAfter(routes')

\* the markers a DELETE of route id takes with it: ON DELETE CASCADE, when
\* the connection enforces foreign keys
CascadeDeleted(id) ==
    IF ForeignKeysEnabled /\ RouteById(id) # {}
    THEN {m \in markers : m.route_id = id} ELSE {}

deleteRouteFromDB(id) ==
    /\ UNCHANGED bootVars
    /\ UNCHANGED <<db, lastRouteId, lastMarkerId, now>>
    /\ IF ~db THEN
            /\ res' = Rejected("deleteRoute", ErrNotConnected, <<>>, id)
            /\ UNCHANGED <<routes, markers>>
       ELSE
            /\ routes' = routes \ RouteById(id)
            /\ markers' = markers \ CascadeDeleted(id)
            /\ res' = Resolved("deleteRoute", <<"DELETE routes">>, id,
                               [id |-> id, changes |-> Cardinality(RouteById(id))])
    /\ search' = SearchAfter(routes')

---------------------------------------------------------------------------
\* Markers

\* the row saveRouteMarkerToDB's INSERT writes
MarkerRow(routeId, markerData, id) ==
    [ id |-> id,
      route_id |-> routeId,
      lng |-> markerData.lng,
      lat |-> markerData.lat,
      marker_type |-> Destructure(markerData, "marker_type", <<"important">>),
      name |-> markerData.name,
      description |-> Destructure(markerData, "description", <<>>),
      image_url |-> Destructure(markerData, "image_url", <<>>),
      contact |-> Destructure(markerData, "contact", <<>>),
      importance |-> Destructure(markerData, "importance", 1),
      category |-> Destructure(markerData, "category", <<"other">>),
      created_at |-> now ]

\* if (!lng || !lat || !name)
MarkerRequiredMissing(markerData) ==
    \/ FalsyNum(markerData, "lng")
    \/ FalsyNum(markerData, "lat")
    \/ FalsyText(markerData, "name")

\* FOREIGN KEY (route_id) REFERENCES routes (id), when enforced
MarkerForeignKeyViolated(routeId) == ForeignKeysEnabled /\ RouteById(routeId) = {}

\* resolve({ id: this.lastID, route_id: routeId, ...markerData })
SaveMarkerResult(routeId, markerData, lastID) ==
    Spread([id |-> lastID, route_id |-> routeId], markerData)

saveRouteMarkerToDB(routeId, markerData) ==
    /\ UNCHANGED bootVars
    /\ UNCHANGED <<db, routes, lastRouteId, now, search>>
    /\ LET arg == [routeId |-> routeId, markerData |-> markerData] IN
       IF ~db THEN
            /\ res' = Rejected("saveMarker", ErrNotConnected, <<>>, arg)
            /\ UNCHANGED <<markers, lastMarkerId>>
       ELSE IF MarkerRequiredMissing(markerData) THEN
            /\ res' = Rejected("saveMarker", ErrMarkerRequired, <<>>, arg)
            /\ UNCHANGED <<markers, lastMarkerId>>
       ELSE IF MarkerForeignKeyViolated(routeId) THEN
            /\ res' = Rejected("saveMarker", ErrConstraint, <<"INSERT route_markers">>, arg)
            /\ UNCHANGED <<markers, lastMarkerId>>
       ELSE
            /\ lastMarkerId < MaxMarkerId
            /\ lastMarkerId' = lastMarkerId + 1
            /\ markers' = markers \cup {MarkerRow(routeId, markerData, lastMarkerId + 1)}
            /\ res' = Resolved("saveMarker", <<"INSERT route_markers">>, arg,
                               SaveMarkerResult(routeId, markerData, lastMarkerId + 1))

\* the sequences that hold each element of S once and follow the order
\* before(a, b): rows the ORDER BY does not tell apart come in any order
Orderings(S, before(_, _)) ==
    { s \in [1..Cardinality(S) -> S] :
        /\ \A i, j \in 1..Cardinality(S) : i # j => s[i] # s[j]
        /\ \A i, j \in 1..Cardinality(S) : i < j => ~before(s[j], s[i]) }

\* faulty variant: ORDER BY created_at DESC alone
MarkerBeforeByTime(a, b) == a.created_at > b.created_at
\* ORDER BY importance DESC, created_at DESC
MarkerBefore(a, b) ==
    \/ a.importance > b.importance
    \/ a.importance = b.importance /\ a.created_at > b.created_at

getRouteMarkersFromDB(routeId) ==
    /\ UNCHANGED bootVars
    /\ UNCHANGED <<db, routes, markers, lastRouteId, lastMarkerId, now, search>>
    /\ IF ~db THEN
            res' = Rejected("getRouteMarkers", ErrNotConnected, <<>>, routeId)
       ELSE
            \E rows \in Orderings({m \in markers : m.route_id = routeId}, MarkerBefore) :
                res' = Resolved("getRouteMarkers", <<"SELECT route_markers">>, routeId, rows)

\* the allow-list of updateRouteMarkerInDB
MarkerAllowedFields ==
    { "name", "description", "image_url", "contact", "importance", "category", "marker_type" }

\* faulty variant: every key of the payload is assigned, allow-listed or not
MarkerUpdateFieldsUnfiltered(updates) == DOMAIN updates
\* the columns the UPDATE of updateRouteMarkerInDB assigns from the payload
MarkerUpdateFields(updates) == (DOMAIN updates) \cap MarkerAllowedFields

\* UPDATE route_markers SET <fields>, on one row
UpdatedMarker(row, updates) ==
    [c \in DOMAIN row |->
        IF c \in MarkerUpdateFields(updates) THEN updates[c] ELSE row[c]]

updateRouteMarkerInDB(markerId, updates) ==
    /\ UNCHANGED bootVars
    /\ UNCHANGED <<db, routes, lastRouteId, lastMarkerId, now, search>>
    /\ LET arg == [id |-> markerId, updates |-> updates] IN
       IF ~db THEN
            /\ res' = Rejected("updateMarker", ErrNotConnected, <<>>, arg)
            /\ UNCHANGED markers
       ELSE IF MarkerUpdateFields(updates) = {} THEN
            /\ res' = Rejected("updateMarker", ErrNoUpdateFields, <<>>, arg)
            /\ UNCHANGED markers
       ELSE
            /\ markers' = {IF m.id = markerId THEN UpdatedMarker(m, updates) ELSE m : m \in markers}
            /\ res' = Resolved("updateMarker", <<"UPDATE route_markers">>, arg,
                               [id |-> markerId, changes |-> Cardinality(MarkerById(markerId))])

deleteRouteMarkerFromDB(markerId) ==
    /\ UNCHANGED bootVars
    /\ UNCHANGED <<db, routes, lastRouteId, lastMarkerId, now, search>>
    /\ IF ~db THEN
            /\ res' = Rejected("deleteMarker", ErrNotConnected, <<>>, markerId)
            /\ UNCHANGED markers
       ELSE
            /\ markers' = markers \ MarkerById(markerId)
            /\ res' = Resolved("deleteMarker", <<"DELETE route_markers">>, markerId,
                               [id |-> markerId, changes |-> Cardinality(MarkerById(markerId))])

---------------------------------------------------------------------------
\* Search

\* keyword && keyword.trim() !== ''
HasKeyword(keyword) == keyword # <<>> /\ Trim(keyword) # <<>>

\* `%${keyword}%`
KeywordPattern(keyword) == <<"%">> \o keyword \o <<"%">>

\* WHERE name LIKE ? OR description LIKE ? OR city LIKE ? OR district LIKE ?
\* OR created_by LIKE ?, or no WHERE clause
KeywordMatches(row, keyword) ==
    HasKeyword(keyword) =>
        \/ Like(row.name, KeywordPattern(keyword))
        \/ Like(row.description, KeywordPattern(keyword))
        \/ Like(row.city, KeywordPattern(keyword))
        \/ Like(row.district, KeywordPattern(keyword))
        \/ Like(row.created_by, KeywordPattern(keyword))

\* faulty variant: the COUNT without the WHERE clause of the data query
CountQueryUnfiltered(table, keyword) == Cardinality(table)
\* SELECT COUNT(*) as total FROM routes [WHERE ...]
CountQuery(table, keyword) == Cardinality({r \in table : KeywordMatches(r, keyword)})

\* ORDER BY created_at DESC
RouteBefore(a, b) == a.created_at > b.created_at

\* LIMIT limit OFFSET offset of an ordered result
LimitOffset(rows, limit, offset) == SubSeq(rows, offset + 1, Min(Len(rows), offset + limit))

\* SELECT * FROM routes [WHERE ...] ORDER BY created_at DESC LIMIT ? OFFSET ?,
\* with offset = (page - 1) * limit: the results the store may return
DataQuery(table, keyword, page, limit) ==
    { LimitOffset(rows, limit, (page - 1) * limit) :
        rows \in Orderings({r \in table : KeywordMatches(r, keyword)}, RouteBefore) }

\* rows.map(...) of searchRoutesFromDB: a row whose JSON does not parse is
\* returned as it is (the catch)
SearchView(row) ==
    IF RowParseThrows(row) THEN row
    ELSE RouteView(row, <<"xitong">>)

\* faulty variant: the data query is issued whatever the count
NoMatchesIgnored(total) == FALSE
\* if (total === 0)
NoMatches(total) == total = 0

\* the first statement of searchRoutesFromDB, the COUNT, and its callback,
\* which issues the SELECT; there is no !db guard, so db.get on the undefined
\* handle throws inside the promise's executor
searchCount(keyword, page, limit) ==
    /\ UNCHANGED bootVars
    /\ search.phase = "idle"
    /\ UNCHANGED <<db, routes, markers, lastRouteId, lastMarkerId, now>>
    /\ LET arg == [keyword |-> keyword, page |-> page, limit |-> limit]
           total == CountQuery(routes, keyword) IN
       IF ~db THEN
            /\ res' = Rejected("search", ErrTypeError, <<>>, arg)
            /\ UNCHANGED search
       ELSE
            \* the COUNT fails: reject(err), and nothing else is issued
            \/ /\ res' = Rejected("search", ErrStatement, <<"COUNT routes">>, arg)
               /\ UNCHANGED search
            \/ IF NoMatches(total) THEN
                    /\ res' = Resolved("search", <<"COUNT routes">>, arg,
                                       [routes |-> <<>>, total |-> 0, page |-> page,
                                        limit |-> limit, dirty |-> FALSE])
                    /\ UNCHANGED search
               ELSE
                    /\ search' = [phase |-> "counted", arg |-> arg, total |-> total,
                                  dirty |-> FALSE]
                    /\ UNCHANGED res

\* the second statement, the SELECT, run from the COUNT's callback
searchData ==
    /\ UNCHANGED bootVars
    /\ search.phase = "counted"
    /\ UNCHANGED <<db, routes, markers, lastRouteId, lastMarkerId, now>>
    /\ search' = NoSearch
    /\ \/ res' = Rejected("search", ErrStatement, <<"COUNT routes", "SELECT routes">>, search.arg)
       \/ \E rows \in DataQuery(routes, search.arg.keyword, search.arg.page, search.arg.limit) :
            res' = Resolved("search", <<"COUNT routes", "SELECT routes">>, search.arg,
                            [routes |-> [i \in 1..Len(rows) |-> SearchView(rows[i])],
                             total |-> search.total, page |-> search.arg.page,
                             limit |-> search.arg.limit, dirty |-> search.dirty])

---------------------------------------------------------------------------

---------------------------------------------------------------------------
\* Workloads: the store under the calls of one group of operations

\* search over a store that route creation fills
NextSearch ==
    \/ initDatabase
    \/ \E routeData \in {RouteMinimal, RouteFull} : saveRouteToDB(routeData)
    \/ \E keyword \in Keywords, page \in 1..MaxPage, limit \in 1..MaxLimit :
            searchCount(keyword, page, limit)
    \/ searchData

SpecSearch == Init /\ [][NextSearch]_vars

\* routes and their markers: creation, listing, update and deletion
NextMarkers ==
    \/ initDatabase
    \/ Tick
    \/ saveRouteToDB(RouteMinimal)
    \/ \E id \in RouteIds, updates \in RouteUpdates : updateRouteInDB(id, updates)
    \/ \E id \in RouteIds : deleteRouteFromDB(id)
    \/ \E routeId \in RouteIds : saveRouteMarkerToDB(routeId, MarkerMinimal)
    \/ \E routeId \in RouteIds : getRouteMarkersFromDB(routeId)
    \/ \E markerId \in MarkerIds, updates \in MarkerUpdates : updateRouteMarkerInDB(markerId, updates)
    \/ \E markerId \in MarkerIds : deleteRouteMarkerFromDB(markerId)

SpecMarkers == Init /\ [][NextMarkers]_vars

\* updates that take effect, as the clock runs
NextUpdate ==
    \/ initDatabase
    \/ Tick
    \/ saveRouteToDB(RouteMinimal)
    \/ \E id \in RouteIds : updateRouteInDB(id, RouteUpdateMixed)
    \/ saveRouteMarkerToDB(1, MarkerMinimal)
    \/ \E markerId \in MarkerIds : updateRouteMarkerInDB(markerId, MarkerUpdateMixed)

SpecUpdate == Init /\ [][NextUpdate]_vars

\* every write of both tables, within one tick of the clock
NextWrites ==
    \/ initDatabase
    \/ saveRouteToDB(RouteMinimal)
    \/ \E id \in RouteIds, updates \in RouteUpdates : updateRouteInDB(id, updates)
    \/ \E id \in RouteIds : deleteRouteFromDB(id)
    \/ saveRouteMarkerToDB(1, MarkerMinimal)
    \/ \E markerId \in MarkerIds, updates \in MarkerUpdates : updateRouteMarkerInDB(markerId, updates)
    \/ \E markerId \in MarkerIds : deleteRouteMarkerFromDB(markerId)

SpecWrites == Init /\ [][NextWrites]_vars

\* creation of routes and markers from every input
NextCreate ==
    \/ initDatabase
    \/ Tick
    \/ \E routeData \in RouteInputs : saveRouteToDB(routeData)
    \/ \E routeId \in RouteIds, markerData \in MarkerInputs : saveRouteMarkerToDB(routeId, markerData)

SpecCreate == Init /\ [][NextCreate]_vars

\* the life of a route: created, fetched, updated, deleted
NextRoutes ==
    \/ initDatabase
    \/ Tick
    \/ \E routeData \in {RouteMinimal, RouteFull, RouteNotJSON} : saveRouteToDB(routeData)
    \/ \E id \in RouteIds : getRouteByIdFromDB(id)
    \/ \E id \in RouteIds : updateRouteInDB(id, RouteUpdateMixed)
    \/ \E id \in RouteIds : deleteRouteFromDB(id)

SpecRoutes == Init /\ [][NextRoutes]_vars

---------------------------------------------------------------------------
\* Claims

\* ceil(a / b)
CeilDiv(a, b) == (a + b - 1) \div b

\* the number of rows of page `page`: every result the store may return for
\* it has this length
PageRows(table, keyword, page, limit) ==
    Len(CHOOSE rows \in DataQuery(table, keyword, page, limit) : TRUE)

RECURSIVE SumPageRows(_, _, _, _)
SumPageRows(table, keyword, lastPage, limit) ==
    IF lastPage = 0 THEN 0
    ELSE PageRows(table, keyword, lastPage, limit)
         + SumPageRows(table, keyword, lastPage - 1, limit)

\* a search that resolved with no write to routes between its two statements
CleanSearchResolved ==
    /\ res.op = "search"
    /\ res.outcome = "resolved"
    /\ ~res.val.dirty

\* C1: a search over an unchanged store resolves with total equal to the
\* number of routes that match the keyword, whatever the page and the limit;
\* the row counts of pages 1..ceil(total/limit) sum to total; the resolved
\* page has the rows of its page, and a page beyond the last is empty while
\* total is still the full count.
C1_SearchTotalCount ==
    CleanSearchResolved =>
        LET keyword == res.arg.keyword
            limit == res.arg.limit
            total == res.val.total
            lastPage == CeilDiv(total, limit) IN
        /\ total = Cardinality({r \in routes : KeywordMatches(r, keyword)})
        /\ SumPageRows(routes, keyword, lastPage, limit) = total
        /\ Len(res.val.routes) = PageRows(routes, keyword, res.arg.page, limit)
        /\ \A page \in 1..(MaxPage + 1) :
                page > lastPage =>
                    DataQuery(routes, keyword, page, limit) = {<<>>}
        /\ res.arg.page > lastPage => res.val.routes = <<>>

\* C1 witness: a page beyond the last resolved empty with a total above 0,
\* over a store in which the keyword matches some routes and not others
C1_Witness ==
    /\ CleanSearchResolved
    /\ res.val.total > 0
    /\ res.val.total < Cardinality(routes)
    /\ res.arg.page > CeilDiv(res.val.total, res.arg.limit)
    /\ res.val.routes = <<>>

\* C2: after deleteRouteFromDB(id) resolves, no marker with route_id = id is
\* left in the store and getRouteMarkersFromDB(id) has nothing to return.
C2_DeleteCascades ==
    [][\A id \in RouteIds :
        (deleteRouteFromDB(id) /\ res'.outcome = "resolved") =>
            /\ {m \in markers' : m.route_id = id} = {}
            /\ Orderings({m \in markers' : m.route_id = id}, MarkerBefore) = {<<>>}]_vars

\* C3: every marker's route_id is the id of a route that exists.
C3_MarkerHasRoute ==
    \A m \in markers : RouteById(m.route_id) # {}

\* the marker allow-list as the specification gives it
SpecMarkerAllowList ==
    { "name", "description", "image_url", "contact", "importance", "category", "marker_type" }

\* what a resolved updateRouteInDB(id, updates) leaves behind
RouteUpdateFrame(id, updates) ==
    /\ markers' = markers
    /\ Cardinality(routes') = Cardinality(routes)
    /\ \A r \in routes :
        IF r.id # id THEN r \in routes'
        ELSE \E r2 \in routes' :
            /\ DOMAIN r2 = DOMAIN r
            /\ r2.id = r.id
            /\ r2.created_at = r.created_at
            /\ \A c \in DOMAIN r :
                r2[c] = IF c \in DOMAIN updates /\ c \in RouteAllowedFields THEN updates[c]
                        ELSE IF c = "updated_at" THEN now
                        ELSE r[c]

\* what a resolved updateRouteMarkerInDB(markerId, updates) leaves behind
MarkerUpdateFrame(markerId, updates) ==
    /\ routes' = routes
    /\ Cardinality(markers') = Cardinality(markers)
    /\ \A m \in markers :
        IF m.id # markerId THEN m \in markers'
        ELSE \E m2 \in markers' :
            /\ DOMAIN m2 = DOMAIN m
            /\ m2.id = m.id
            /\ m2.created_at = m.created_at
            /\ \A c \in DOMAIN m :
                m2[c] = IF c \in DOMAIN updates /\ c \in SpecMarkerAllowList THEN updates[c]
                        ELSE m[c]

\* C4: a resolved update changes, in the row with that id only, exactly the
\* columns whose keys are in the payload and on the allow-list (and
\* updated_at, for a route); the id, created_at, every other column and every
\* other row of both tables stay as they were.
C4_UpdateFrame ==
    [][/\ \A id \in RouteIds, updates \in RouteUpdates :
            (res'.op = "updateRoute" /\ res'.outcome = "resolved" /\ updateRouteInDB(id, updates))
                => RouteUpdateFrame(id, updates)
       /\ \A markerId \in MarkerIds, updates \in MarkerUpdates :
            (res'.op = "updateMarker" /\ res'.outcome = "resolved"
                /\ updateRouteMarkerInDB(markerId, updates))
                => MarkerUpdateFrame(markerId, updates)]_vars

\* C4 witness: an update of route 1 took effect after the clock moved, with
\* another route and two markers in the store, one of them updated
C4_Witness ==
    /\ res.op = "updateRoute"
    /\ res.outcome = "resolved"
    /\ res.val.changes = 1
    /\ \E r \in routes : r.id = res.arg.id /\ r.name = <<"b">> /\ r.updated_at > r.created_at
    /\ \E r \in routes : r.id # res.arg.id
    /\ \E m1, m2 \in markers : m1.importance = 2 /\ m2.importance = 1

\* the store as a rejected or empty write leaves it
StoreUnchanged ==
    /\ routes' = routes
    /\ markers' = markers
    /\ lastRouteId' = lastRouteId
    /\ lastMarkerId' = lastMarkerId

\* rejected before any statement
RejectedNoFields ==
    /\ res'.outcome = "rejected"
    /\ res'.err = ErrNoUpdateFields
    /\ res'.sql = <<>>
    /\ StoreUnchanged

\* C5: on a connected store, an update whose payload has no key on the
\* allow-list is rejected with the no-valid-fields error, issues no statement
\* and leaves both tables as they were, whether or not the id exists.
C5_NoAllowedFieldRejected ==
    [][/\ \A id \in RouteIds, updates \in RouteUpdates :
            (db /\ (DOMAIN updates) \cap RouteAllowedFields = {}
                /\ updateRouteInDB(id, updates))
                => RejectedNoFields
       /\ \A markerId \in MarkerIds, updates \in MarkerUpdates :
            (db /\ (DOMAIN updates) \cap SpecMarkerAllowList = {}
                /\ updateRouteMarkerInDB(markerId, updates))
                => RejectedNoFields]_vars

\* C5 witness: { bogusField: 1 } was rejected for a marker that exists
C5_Witness ==
    /\ res.op = "updateMarker"
    /\ res.err = ErrNoUpdateFields
    /\ DOMAIN res.arg.updates = {"bogusField"}
    /\ MarkerById(res.arg.id) # {}
    /\ routes # {}

\* resolved with { id, changes: 0 } and nothing written
ZeroChanges(id) ==
    /\ res'.outcome = "resolved"
    /\ res'.val = [id |-> id, changes |-> 0]
    /\ StoreUnchanged

\* C6: on a connected store, an update with an allow-listed key and a delete,
\* of a route or of a marker, on an id that matches no row resolve with
\* changes = 0 and leave the store as it was.
C6_MissingIdZeroChanges ==
    [][/\ \A id \in RouteIds, updates \in RouteUpdates :
            (db /\ (\A r \in routes : r.id # id) /\ (DOMAIN updates) \cap RouteAllowedFields # {}
                /\ updateRouteInDB(id, updates))
                => ZeroChanges(id)
       /\ \A id \in RouteIds :
            (db /\ (\A r \in routes : r.id # id) /\ deleteRouteFromDB(id)) => ZeroChanges(id)
       /\ \A markerId \in MarkerIds, updates \in MarkerUpdates :
            (db /\ (\A m \in markers : m.id # markerId) /\ (DOMAIN updates) \cap SpecMarkerAllowList # {}
                /\ updateRouteMarkerInDB(markerId, updates))
                => ZeroChanges(markerId)
       /\ \A markerId \in MarkerIds :
            (db /\ (\A m \in markers : m.id # markerId) /\ deleteRouteMarkerFromDB(markerId))
                => ZeroChanges(markerId)]_vars

\* C6 witness: a route was deleted twice; the second delete resolved with
\* changes = 0 while the store held another route and a marker
C6_Witness ==
    /\ res.op = "deleteRoute"
    /\ res.outcome = "resolved"
    /\ res.val.changes = 0
    /\ res.arg < lastRouteId
    /\ routes # {}
    /\ markers # {}

\* C7: saveRouteToDB is rejected and adds no row when name, waypoints,
\* start_lng or end_lng is absent; saveRouteMarkerToDB is rejected and adds
\* no row when lng, lat or name is absent.
C7_RequiredFields ==
    [][/\ \A routeData \in RouteInputs :
            ((\E k \in {"name", "waypoints", "start_lng", "end_lng"} : k \notin DOMAIN routeData)
                /\ saveRouteToDB(routeData))
                => (res'.outcome = "rejected" /\ routes' = routes)
       /\ \A routeId \in RouteIds, markerData \in MarkerInputs :
            ((\E k \in {"lng", "lat", "name"} : k \notin DOMAIN markerData)
                /\ saveRouteMarkerToDB(routeId, markerData))
                => (res'.outcome = "rejected" /\ markers' = markers)]_vars

\* the last call created a route and resolved, and this step fetches the
\* route by the id that call returned
FetchOfSaved(id) ==
    /\ res.op = "saveRoute"
    /\ res.outcome = "resolved"
    /\ id = res.val.id
    /\ getRouteByIdFromDB(id)

\* C8: a route created from name, waypoints and the start and end
\* coordinates alone is fetched with that name, every traffic counter 0,
\* route_type 'driving', the district_type default and created_by 'system'.
C8_CreateDefaults ==
    [][\A id \in RouteIds :
        (/\ res.op = "saveRoute"
         /\ DOMAIN res.arg = {"name", "waypoints", "start_lng", "start_lat", "end_lng", "end_lat"}
         /\ JSONparse(res.arg.waypoints).ok
         /\ FetchOfSaved(id))
        => /\ res'.outcome = "resolved"
           /\ res'.val.name = res.arg.name
           /\ \A c \in {"intersections", "right_turns", "left_turns", "u_turns", "roundabouts",
                        "special_traffic_lights", "special_intersections"} : res'.val[c] = 0
           /\ res'.val.route_type = <<"driving">>
           /\ res'.val.district_type = DistrictTypeDefault
           /\ res'.val.created_by = <<"system">>]_vars

\* the structured values of the inputs
JsonValues == {WaypointsValue1, StepsValue1, PolylineValue1, JArr(<<>>)}
Serialized(text) == \E v \in JsonValues : JSONstringify(v) = text
ValueOf(text) == CHOOSE v \in JsonValues : JSONstringify(v) = text
SameJson(a, b) == a.t = b.t /\ a.v = b.v

\* the last call saved a route with serialized waypoints, steps and polyline
SavedSerialized ==
    /\ res.op = "saveRoute"
    /\ {"waypoints", "steps", "polyline"} \subseteq DOMAIN res.arg
    /\ Serialized(res.arg.waypoints)
    /\ Serialized(res.arg.steps)
    /\ Serialized(res.arg.polyline)

\* C9 as claimed: the fetch returns waypoints, steps and polyline each
\* deserialized to the value that was serialized on write.
C9_RoundTripAll ==
    [][\A id \in RouteIds :
        (SavedSerialized /\ FetchOfSaved(id))
        => /\ res'.outcome = "resolved"
           /\ SameJson(res'.val.waypoints, ValueOf(res.arg.waypoints))
           /\ SameJson(res'.val.steps, ValueOf(res.arg.steps))
           /\ SameJson(res'.val.polyline, ValueOf(res.arg.polyline))]_vars

\* C9 as amended: the fetch returns waypoints and steps deserialized to the
\* values that were serialized on write, and polyline as the string that was
\* written, not deserialized.
C9_RoundTrip ==
    [][\A id \in RouteIds :
        (SavedSerialized /\ FetchOfSaved(id))
        => /\ res'.outcome = "resolved"
           /\ SameJson(res'.val.waypoints, ValueOf(res.arg.waypoints))
           /\ SameJson(res'.val.steps, ValueOf(res.arg.steps))
           /\ SameJson(res'.val.polyline, JStr(res.arg.polyline))]_vars

\* C9 witness: a route saved with all three serialized was fetched, its
\* steps a nested value again
C9_Witness ==
    /\ res.op = "getRouteById"
    /\ res.outcome = "resolved"
    /\ SameJson(res.val.steps, StepsValue1)
    /\ SameJson(res.val.waypoints, WaypointsValue1)
    /\ res.val.polyline = JStr(Polyline1)

\* C10: on a connected store getRouteByIdFromDB(id) is rejected with the
\* not-found error exactly when no route has that id, and resolves with the
\* row when one has.
C10_NotFoundIffNoRow ==
    [][\A id \in RouteIds :
        (db /\ getRouteByIdFromDB(id))
        => /\ (res'.outcome = "rejected" /\ res'.err = ErrRouteNotFound) <=> (RouteById(id) = {})
           /\ RouteById(id) # {} => (res'.outcome = "resolved" /\ res'.val.id = id)]_vars

---------------------------------------------------------------------------
\* services/amapService.js: geometry

\* the longest path string the geometry functions are given
MaxPolylineLen == 7

\* the characters of a path string: digits, a letter, and the two separators
PolylineChars == {"1", "2", "x", ",", ";"}

\* a JS number: a finite value or NaN
Num(n) == [nan |-> FALSE, v |-> n]
NaN == [nan |-> TRUE, v |-> 0]

\* the value of a run of decimal digits
RECURSIVE DigitsValue(_)
DigitsValue(s) ==
    IF s = <<>> THEN 0
    ELSE 10 * DigitsValue(SubSeq(s, 1, Len(s) - 1)) + TokNum(s[Len(s)])

\* the longest prefix of s that is a run of digits
RECURSIVE DigitPrefix(_)
DigitPrefix(s) ==
    IF s = <<>> \/ ~IsNumTok(s[1]) THEN <<>>
    ELSE <<s[1]>> \o DigitPrefix(Tail(s))

\* parseFloat(s): the number the longest numeric prefix spells, NaN when
\* there is none
parseFloat(s) ==
    IF DigitPrefix(s) = <<>> THEN NaN ELSE Num(DigitsValue(DigitPrefix(s)))

\* Number(s): 0 for the empty string, the number the whole string spells,
\* NaN otherwise
Number(s) ==
    IF s = <<>> THEN Num(0)
    ELSE IF DigitPrefix(s) = s THEN Num(DigitsValue(s))
    ELSE NaN

\* s.split(sep): the pieces between the separators, at least one
RECURSIVE Split(_, _)
Split(s, sep) ==
    IF \A i \in 1..Len(s) : s[i] # sep THEN <<s>>
    ELSE LET i == CHOOSE j \in 1..Len(s) :
                    s[j] = sep /\ \A k \in 1..(j - 1) : s[k] # sep
         IN <<SubSeq(s, 1, i - 1)>> \o Split(SubSeq(s, i + 1, Len(s)), sep)

\* faulty variant: the guard without the test for the empty string
NoPolylineTypeOnly(polyline) == polyline.t # "str"

\* !polyline || typeof polyline !== 'string' || polyline.length === 0
NoPolyline(polyline) == polyline.t # "str" \/ polyline.v = <<>>

\* const [lng, lat] = point.split(','); [parseFloat(lng), parseFloat(lat)]:
\* lat is undefined when the point has no comma, and parseFloat(undefined)
\* is NaN
DecodePoint(point) ==
    LET parts == Split(point, ",") IN
    <<parseFloat(parts[1]), IF Len(parts) >= 2 THEN parseFloat(parts[2]) ELSE NaN>>

\* split and parseFloat do not throw: the catch block is never entered
decodePolyline(polyline) ==
    IF NoPolyline(polyline) THEN <<>>
    ELSE LET points == Split(polyline.v, ";") IN
         [i \in 1..Len(points) |-> DecodePoint(points[i])]

\* Math.min(...xs) and Math.max(...xs): NaN when any argument is NaN or
\* undefined
MathMin(xs) ==
    IF \E i \in 1..Len(xs) : xs[i].nan THEN NaN
    ELSE Num(CHOOSE m \in {xs[i].v : i \in 1..Len(xs)} :
                \A i \in 1..Len(xs) : m <= xs[i].v)
MathMax(xs) ==
    IF \E i \in 1..Len(xs) : xs[i].nan THEN NaN
    ELSE Num(CHOOSE m \in {xs[i].v : i \in 1..Len(xs)} :
                \A i \in 1..Len(xs) : m >= xs[i].v)

\* const [lng, lat] = point.split(',').map(Number); lat is undefined when
\* the point has no comma, which Math.min and Math.max read as NaN
BoundsPoint(point) ==
    LET parts == Split(point, ",") IN
    [lng |-> Number(parts[1]), lat |-> IF Len(parts) >= 2 THEN Number(parts[2]) ELSE NaN]

NullBounds == [isNull |-> TRUE]

\* bounds that are null whatever the polyline
calculateBoundsAlwaysNull(polyline) == NullBounds

calculateBounds(polyline) ==
    IF NoPolyline(polyline) THEN NullBounds
    ELSE LET segs == Split(polyline.v, ";")
             points == [i \in 1..Len(segs) |-> BoundsPoint(segs[i])]
             lngs == [i \in 1..Len(points) |-> points[i].lng]
             lats == [i \in 1..Len(points) |-> points[i].lat]
         IN [isNull |-> FALSE,
             southwest |-> [lng |-> MathMin(lngs), lat |-> MathMin(lats)],
             northeast |-> [lng |-> MathMax(lngs), lat |-> MathMax(lats)]]

\* every string of at most n characters
StringsUpTo(n) == UNION {[1..k -> PolylineChars] : k \in 0..n}

JUndefined == [t |-> "undefined", v |-> <<>>]
JNull == [t |-> "null", v |-> <<>>]

\* what the geometry functions may be given: a string, or no string at all
PolylineInputs ==
    {JStr(t) : t \in StringsUpTo(MaxPolylineLen)}
        \cup {JUndefined, JNull, JNum(0), JNum(1), JArr(<<>>)}

\* a call that has its argument and has not run yet
Pending(arg) == Settled("input", "none", "none", <<>>, arg, <<>>)

InitGeometry ==
    /\ users = {}
    /\ boot = BootIdle
    /\ req = NoRequest
    /\ db = FALSE
    /\ routes = {}
    /\ markers = {}
    /\ lastRouteId = 0
    /\ lastMarkerId = 0
    /\ now = 0
    /\ search = NoSearch
    /\ res \in {Pending(polyline) : polyline \in PolylineInputs}

callDecodePolyline ==
    /\ UNCHANGED bootVars
    /\ res.op = "input"
    /\ res' = Resolved("decodePolyline", <<>>, res.arg, decodePolyline(res.arg))
    /\ UNCHANGED <<db, routes, markers, lastRouteId, lastMarkerId, now, search>>

callCalculateBounds ==
    /\ UNCHANGED bootVars
    /\ res.op = "input"
    /\ res' = Resolved("calculateBounds", <<>>, res.arg, calculateBounds(res.arg))
    /\ UNCHANGED <<db, routes, markers, lastRouteId, lastMarkerId, now, search>>

NextGeometry ==
    \/ callDecodePolyline
    \/ callCalculateBounds

SpecGeometry == InitGeometry /\ [][NextGeometry]_vars

---------------------------------------------------------------------------
\* services/amapService.js: normalization of the provider's response

\* the significant bits of a double
DoubleBits == 53

\* the number of bits of the natural n
RECURSIVE BitLength(_)
BitLength(n) == IF n = 0 THEN 0 ELSE 1 + BitLength(n \div 2)

\* the sign of (the double nearest to the quotient) - (the quotient), from
\* the binary expansion of the quotient: r is the remainder so far, sig the
\* significant bits produced, last the last of them
RECURSIVE RoundingSign(_, _, _, _)
RoundingSign(r, d, sig, last) ==
    IF r = 0 THEN 0
    ELSE IF sig = DoubleBits THEN
        IF 2 * r < d THEN -1
        ELSE IF 2 * r > d THEN 1
        ELSE IF last = 1 THEN 1 ELSE -1
    ELSE LET bit == (2 * r) \div d IN
         RoundingSign((2 * r) % d, d, IF sig > 0 \/ bit = 1 THEN sig + 1 ELSE 0, bit)

\* a / d as the double the division yields: above (1), below (-1) or equal
\* to (0) the exact quotient
DivisionError(a, d) == RoundingSign(a % d, d, BitLength(a \div d), (a \div d) % 2)

\* String(n) of a natural
RECURSIVE DecimalDigits(_)
DecimalDigits(n) ==
    IF n < 10 THEN <<NumTok(n)>>
    ELSE Append(DecimalDigits(n \div 10), NumTok(n % 10))

\* the n of (meters / 1000).toFixed(1): the integer for which n / 10 is
\* nearest to the double, the larger one when two are equally near
Tenths(meters) ==
    LET below == meters \div 100
        rest == meters % 100 IN
    IF rest < 50 THEN below
    ELSE IF rest > 50 THEN below + 1
    ELSE IF DivisionError(meters, 1000) >= 0 THEN below + 1
    ELSE below

\* (meters / 1000).toFixed(1), a string with one decimal
toFixed1(meters) ==
    DecimalDigits(Tenths(meters) \div 10) \o <<".", NumTok(Tenths(meters) % 10)>>

\* faulty variant: Math.round in place of Math.ceil
MathRound(seconds) == (seconds + 30) \div 60

\* Math.ceil(seconds / 60): the quotient of two small integers is an integer
\* as a double only when it is one exactly
MathCeil(seconds) ==
    IF seconds % 60 = 0 THEN seconds \div 60 ELSE seconds \div 60 + 1

\* the largest raw distance (meters) and duration (seconds) of a response
MaxMeters == 260
MaxSeconds == 121
\* the most steps of a path
MaxSteps == 3

ErrNoPath == "no_path_found"
ErrProvider == "provider_error"
ErrNetwork == "network_error"

Returned(val) == [ok |-> TRUE, val |-> val]
Threw(err) == [ok |-> FALSE, err |-> err]

\* s.replace(/<[^>]*>/g, ''): every '<' up to the next '>' is removed
RECURSIVE StripTags(_)
StripTags(s) ==
    IF s = <<>> THEN <<>>
    ELSE IF s[1] = "<" /\ \E j \in 2..Len(s) : s[j] = ">" THEN
        LET j == CHOOSE k \in 2..Len(s) : s[k] = ">" /\ \A l \in 2..(k - 1) : s[l] # ">"
        IN StripTags(SubSeq(s, j + 1, Len(s)))
    ELSE <<s[1]>> \o StripTags(Tail(s))

\* !route || !route.paths || route.paths.length === 0
NoPaths(data) ==
    \/ "route" \notin DOMAIN data
    \/ "paths" \notin DOMAIN data.route
    \/ data.route.paths = <<>>

\* path.steps.map(step => step.polyline): a step without the key gives
\* undefined, which the filter drops like the empty string
StepPolylines(steps) ==
    [i \in 1..Len(steps) |-> Destructure(steps[i], "polyline", <<>>)]

\* faulty variant: the step fragments joined without the filter
RECURSIVE JoinAll(_)
JoinAll(ps) ==
    IF ps = <<>> THEN <<>>
    ELSE IF Len(ps) = 1 THEN ps[1]
    ELSE ps[1] \o <<";">> \o JoinAll(Tail(ps))

\* .filter(p => p && p.length > 0).join(';')
FilterJoin(ps) == JoinAll(SelectSeq(ps, LAMBDA q : q # <<>>))

\* let aggregatedPolyline = path.polyline; if it is missing or empty, the
\* non-empty step polylines joined with ';'
AggregatedPolyline(path) ==
    IF Destructure(path, "polyline", <<>>) # <<>> THEN path.polyline
    ELSE FilterJoin(StepPolylines(path.steps))

\* one element of path.steps.map(step => ({ ... }))
ParsedStep(step) ==
    [instruction |-> StripTags(step.instruction),
     distance |-> toFixed1(step.distance),
     time |-> MathCeil(step.duration),
     road |-> Destructure(step, "road", <<>>),
     orientation |-> Destructure(step, "orientation", <<>>)]

\* path.steps.map(...) throws a TypeError on a path without steps, and
\* step.instruction.replace on a step without instruction
StepsThrow(path) ==
    \/ "steps" \notin DOMAIN path
    \/ \E i \in 1..Len(path.steps) : "instruction" \notin DOMAIN path.steps[i]

\* faulty variant: an empty plan is returned for a response without paths
EmptyPlan ==
    Returned([distance |-> toFixed1(0), time |-> 0, tolls |-> 0, traffic_lights |-> 0,
              steps |-> <<>>, polyline |-> <<>>, bounds |-> NullBounds, source |-> "amap"])

\* throw new Error(...) of the check that a path exists
NoPathFound == Threw(ErrNoPath)

parseRealRouteData(data) ==
    IF NoPaths(data) THEN NoPathFound
    ELSE LET path == data.route.paths[1] IN
         IF StepsThrow(path) THEN Threw(ErrTypeError)
         ELSE Returned(
            [distance |-> toFixed1(path.distance),
             time |-> MathCeil(path.duration),
             tolls |-> Destructure(path, "tolls", 0),
             traffic_lights |-> Destructure(path, "traffic_lights", 0),
             steps |-> [i \in 1..Len(path.steps) |-> ParsedStep(path.steps[i])],
             polyline |-> decodePolyline(JStr(AggregatedPolyline(path))),
             bounds |-> calculateBounds(JStr(AggregatedPolyline(path))),
             source |-> "amap"])

\* Inputs: the provider's steps, paths and responses
StepPolylineInputs == {<<>>, <<"1", ",", "1">>, <<"2", ",", "2">>}
StepWith(meters, seconds, polyline) ==
    [instruction |-> <<"<", "b", ">", "a", "<", "/", "b", ">">>,
     distance |-> meters, duration |-> seconds, polyline |-> polyline, road |-> <<"r">>]
StepInputs ==
    {StepWith(100, 60, polyline) : polyline \in StepPolylineInputs}
        \cup {Without(StepWith(100, 60, <<>>), "polyline")}
StepLists == UNION {[1..k -> StepInputs] : k \in 0..MaxSteps}

PathWith(meters, seconds, polyline, steps) ==
    [distance |-> meters, duration |-> seconds, polyline |-> polyline, steps |-> steps]
\* a second candidate path, which nothing reads
OtherPath == PathWith(2000, 600, <<"2", ",", "1">>, <<StepWith(2000, 600, <<"2", ",", "1">>)>>)

ResponseWith(status, paths) ==
    [status |-> status, info |-> <<"i">>, route |-> [paths |-> paths]]

\* responses of one path whose raw distances and durations vary
NumericResponses ==
    {ResponseWith("1", <<PathWith(meters, seconds, <<"1", ",", "2">>,
                            <<StepWith(MaxMeters - meters, MaxSeconds - seconds, <<>>)>>)>>) :
        meters \in 0..MaxMeters, seconds \in 0..MaxSeconds}

FirstPaths ==
    {PathWith(1234, 61, polyline, steps) : polyline \in {<<>>, <<"1", ",", "2">>}, steps \in StepLists}
        \cup {Without(PathWith(1234, 61, <<>>, steps), "polyline") : steps \in StepLists}
        \cup {Without(PathWith(1234, 61, <<"1", ",", "2">>, <<>>), "steps")}

\* responses whose shape varies: the status flag, the path list, the
\* geometry of the first path and of its steps
StructuralResponses ==
    UNION {
        {ResponseWith(status, <<>>),
         [status |-> status, info |-> <<"i">>],
         [status |-> status, info |-> <<"i">>, route |-> EmptyObject]}
        \cup {ResponseWith(status, <<path>>) : path \in FirstPaths}
        \cup {ResponseWith(status, <<path, OtherPath>>) : path \in FirstPaths}
      : status \in {"0", "1"}}

ProviderResponses == NumericResponses \cup StructuralResponses

InitNormalize ==
    /\ users = {}
    /\ boot = BootIdle
    /\ req = NoRequest
    /\ db = FALSE
    /\ routes = {}
    /\ markers = {}
    /\ lastRouteId = 0
    /\ lastMarkerId = 0
    /\ now = 0
    /\ search = NoSearch
    /\ res \in {Pending(data) : data \in ProviderResponses}

\* how a call of a function settles that returns a value or throws
SettledWith(op, arg, r) ==
    IF r.ok THEN Resolved(op, <<>>, arg, r.val) ELSE Rejected(op, r.err, <<>>, arg)

callParseRealRouteData ==
    /\ UNCHANGED bootVars
    /\ res.op = "input"
    /\ res' = SettledWith("parseRealRouteData", res.arg, parseRealRouteData(res.arg))
    /\ UNCHANGED <<db, routes, markers, lastRouteId, lastMarkerId, now, search>>

\* planDrivingRoute once axios.get has answered with response.data = data:
\* a status other than '1' throws the provider's error, and the catch block
\* throws again whatever was thrown
planDrivingRoute ==
    /\ UNCHANGED bootVars
    /\ res.op = "input"
    /\ res' = IF res.arg.status # "1"
              THEN Rejected("planDrivingRoute", ErrProvider, <<>>, res.arg)
              ELSE SettledWith("planDrivingRoute", res.arg, parseRealRouteData(res.arg))
    /\ UNCHANGED <<db, routes, markers, lastRouteId, lastMarkerId, now, search>>

\* planDrivingRoute when axios.get fails: the catch block throws its error
planDrivingRouteFailed ==
    /\ UNCHANGED bootVars
    /\ res.op = "input"
    /\ res' = Rejected("planDrivingRoute", ErrNetwork, <<>>, res.arg)
    /\ UNCHANGED <<db, routes, markers, lastRouteId, lastMarkerId, now, search>>

NextNormalize ==
    \/ callParseRealRouteData
    \/ planDrivingRoute
    \/ planDrivingRouteFailed

SpecNormalize == InitNormalize /\ [][NextNormalize]_vars

\* a point "lng,lat": two non-empty runs of digits around one comma
WellFormedPoint(seg) ==
    \E i \in 2..(Len(seg) - 1) :
        /\ seg[i] = ","
        /\ \A j \in 1..Len(seg) : j # i => IsNumTok(seg[j])
PointLng(seg) == DigitsValue(DigitPrefix(seg))
PointLat(seg) == DigitsValue(SubSeq(seg, Len(DigitPrefix(seg)) + 2, Len(seg)))

\* the argument is no string, or the empty string
NoPathString(arg) == arg.t # "str" \/ arg.v = <<>>

\* C14: for an empty, missing or non-string argument decodePolyline returns
\* the empty sequence and calculateBounds returns null, neither raising; for
\* a string that is one point "lng,lat" decodePolyline returns exactly that
\* one coordinate and calculateBounds a box whose southwest and northeast
\* are both that point.
C14_EmptyAndSinglePoint ==
    /\ (res.op = "decodePolyline" /\ NoPathString(res.arg))
        => (res.outcome = "resolved" /\ res.val = <<>>)
    /\ (res.op = "calculateBounds" /\ NoPathString(res.arg))
        => (res.outcome = "resolved" /\ res.val.isNull)
    /\ (res.op = "decodePolyline" /\ res.arg.t = "str" /\ WellFormedPoint(res.arg.v))
        => res.val = << <<Num(PointLng(res.arg.v)), Num(PointLat(res.arg.v))>> >>
    /\ (res.op = "calculateBounds" /\ res.arg.t = "str" /\ WellFormedPoint(res.arg.v))
        => LET point == [lng |-> Num(PointLng(res.arg.v)), lat |-> Num(PointLat(res.arg.v))] IN
           /\ ~res.val.isNull
           /\ res.val.southwest = point
           /\ res.val.northeast = point

\* C14 witness: the bounds of the one point "12,21" were computed
C14_Witness ==
    /\ res.op = "calculateBounds"
    /\ res.arg = JStr(<<"1", "2", ",", "2", "1">>)
    /\ ~res.val.isNull
    /\ res.val.southwest.lng = Num(12)

\* the decoded points' coordinates, as Math.min and Math.max take them
DecodedLngs(arg) == [i \in 1..Len(decodePolyline(arg)) |-> decodePolyline(arg)[i][1]]
DecodedLats(arg) == [i \in 1..Len(decodePolyline(arg)) |-> decodePolyline(arg)[i][2]]

\* C15: for every non-empty path string calculateBounds returns the
\* componentwise minimum and maximum of the points decodePolyline returns
\* for it, whatever the string, and every decoded point lies inside the box.
C15_BoundsOfDecoded ==
    (res.op = "calculateBounds" /\ res.arg.t = "str" /\ res.arg.v # <<>>)
        => /\ ~res.val.isNull
           /\ res.val.southwest = [lng |-> MathMin(DecodedLngs(res.arg)),
                                   lat |-> MathMin(DecodedLats(res.arg))]
           /\ res.val.northeast = [lng |-> MathMax(DecodedLngs(res.arg)),
                                   lat |-> MathMax(DecodedLats(res.arg))]
           /\ \A i \in 1..Len(decodePolyline(res.arg)) :
                LET point == decodePolyline(res.arg)[i] IN
                /\ ~point[1].nan /\ ~point[2].nan
                /\ ~res.val.southwest.lng.nan /\ ~res.val.northeast.lat.nan
                /\ res.val.southwest.lng.v <= point[1].v
                /\ point[1].v <= res.val.northeast.lng.v
                /\ res.val.southwest.lat.v <= point[2].v
                /\ point[2].v <= res.val.northeast.lat.v

\* a path string with a point that is empty, has no comma or has a
\* component that is no number
Malformed(arg) ==
    /\ arg.t = "str"
    /\ arg.v # <<>>
    /\ \E i \in 1..Len(Split(arg.v, ";")) : ~WellFormedPoint(Split(arg.v, ";")[i])

\* C16: for a path string with a malformed point decodePolyline returns the
\* empty sequence and calculateBounds returns null, neither raising.
C16_MalformedDegrades ==
    /\ (res.op = "decodePolyline" /\ Malformed(res.arg))
        => (res.outcome = "resolved" /\ res.val = <<>>)
    /\ (res.op = "calculateBounds" /\ Malformed(res.arg))
        => (res.outcome = "resolved" /\ res.val.isNull)

\* a string with one decimal that spells n tenths
SpellsTenths(text, n) ==
    /\ Len(text) >= 3
    /\ text[Len(text) - 1] = "."
    /\ \A i \in 1..Len(text) : i # Len(text) - 1 => IsNumTok(text[i])
    /\ n = 10 * DigitsValue(SubSeq(text, 1, Len(text) - 2)) + TokNum(text[Len(text)])

\* text is meters / 1000 to the nearest tenth, either tenth when meters is
\* halfway between two
RoundedKilometers(text, meters) ==
    \E n \in 0..(meters \div 100 + 1) :
        /\ SpellsTenths(text, n)
        /\ 100 * n - meters \in -50..50

\* minutes is seconds / 60 rounded up
CeilMinutes(minutes, seconds) ==
    /\ 60 * minutes >= seconds
    /\ 60 * (minutes - 1) < seconds
    /\ seconds = 61 => minutes = 2
    /\ seconds = 60 => minutes = 1
    /\ seconds = 0 => minutes = 0

\* a response with a first path whose steps all carry an instruction
HasValidPath(data) ==
    /\ "route" \in DOMAIN data
    /\ "paths" \in DOMAIN data.route
    /\ Len(data.route.paths) >= 1
    /\ "steps" \in DOMAIN data.route.paths[1]
    /\ \A i \in 1..Len(data.route.paths[1].steps) :
            "instruction" \in DOMAIN data.route.paths[1].steps[i]

\* C11: for a response with at least one path parseRealRouteData returns
\* time = ceil(seconds / 60) and distance = meters / 1000 rounded to one
\* decimal for the first path, and the same for each of its steps.
C11_UnitConversion ==
    (res.op = "parseRealRouteData" /\ HasValidPath(res.arg)) =>
        LET path == res.arg.route.paths[1] IN
        /\ res.outcome = "resolved"
        /\ CeilMinutes(res.val.time, path.duration)
        /\ RoundedKilometers(res.val.distance, path.distance)
        /\ Len(res.val.steps) = Len(path.steps)
        /\ \A i \in 1..Len(path.steps) :
            /\ CeilMinutes(res.val.steps[i].time, path.steps[i].duration)
            /\ RoundedKilometers(res.val.steps[i].distance, path.steps[i].distance)

\* C11 witness: 61 seconds became 2 minutes and 150 meters "0.1" kilometers,
\* in a response whose step has 60 seconds
C11_Witness ==
    /\ res.op = "parseRealRouteData"
    /\ res.outcome = "resolved"
    /\ res.arg.route.paths[1].duration = 61
    /\ res.arg.route.paths[1].distance = 150
    /\ res.val.time = 2
    /\ res.val.distance = <<"0", ".", "1">>
    /\ res.val.steps[1].time = 1

\* the response has no path: the route or its path list is missing or empty
EmptyPathList(data) ==
    \/ "route" \notin DOMAIN data
    \/ "paths" \notin DOMAIN data.route
    \/ Len(data.route.paths) = 0

\* a call that had the provider's response to work on
Normalized ==
    /\ res.op \in {"parseRealRouteData", "planDrivingRoute"}
    /\ res.err # ErrNetwork

\* C12 as claimed: a response without paths always fails with the
\* no-path-found error, through parseRealRouteData and through
\* planDrivingRoute, whatever its status flag.
C12_NoPathAlways ==
    (Normalized /\ EmptyPathList(res.arg)) =>
        (res.outcome = "rejected" /\ res.err = ErrNoPath)

\* C12 as amended: a response without paths never yields a plan;
\* parseRealRouteData fails with the no-path-found error whatever the status
\* flag, and planDrivingRoute fails with it when the status is '1' and with
\* the provider's error when the status is not '1'.
C12_NoPathNoPlan ==
    (Normalized /\ EmptyPathList(res.arg)) =>
        /\ res.outcome = "rejected"
        /\ res.err = IF res.op = "planDrivingRoute" /\ res.arg.status # "1"
                     THEN ErrProvider ELSE ErrNoPath

\* C12 witness: parseRealRouteData failed with the no-path-found error on a
\* response of status '0' with an empty path list
C12_Witness ==
    /\ res.op = "parseRealRouteData"
    /\ res.arg.status = "0"
    /\ "route" \in DOMAIN res.arg
    /\ "paths" \in DOMAIN res.arg.route
    /\ res.arg.route.paths = <<>>
    /\ res.err = ErrNoPath

\* the non-empty polylines of the steps, in order, with ';' between them
RECURSIVE Fragments(_)
Fragments(steps) ==
    IF steps = <<>> THEN <<>>
    ELSE LET rest == Fragments(Tail(steps))
             frag == IF "polyline" \in DOMAIN steps[1] THEN steps[1].polyline ELSE <<>>
         IN IF frag = <<>> THEN rest
            ELSE IF rest = <<>> THEN frag
            ELSE frag \o <<";">> \o rest

\* the geometry of a path: its own polyline, or its steps' fragments
PathGeometry(path) ==
    IF "polyline" \in DOMAIN path /\ path.polyline # <<>> THEN path.polyline
    ELSE Fragments(path.steps)

\* C13: the plan is made from the first path alone, and its geometry is
\* decoded from that path's polyline when it has a non-empty one, and
\* otherwise from the non-empty polylines of its steps, in step order and
\* joined by ';', with no segment for an empty or missing one.
C13_PolylineAggregation ==
    (Normalized /\ res.outcome = "resolved") =>
        LET path == res.arg.route.paths[1] IN
        /\ res.val.polyline = decodePolyline(JStr(PathGeometry(path)))
        /\ res.val.bounds = calculateBounds(JStr(PathGeometry(path)))
        /\ Len(res.val.steps) = Len(path.steps)
        /\ CeilMinutes(res.val.time, path.duration)

\* C13 witness: of two candidate paths the first, without a polyline of its
\* own, gave two points from three steps, the second step's fragment empty
C13_Witness ==
    /\ res.op = "planDrivingRoute"
    /\ res.outcome = "resolved"
    /\ Len(res.arg.route.paths) = 2
    /\ "polyline" \notin DOMAIN res.arg.route.paths[1]
    /\ Len(res.arg.route.paths[1].steps) = 3
    /\ "polyline" \in DOMAIN res.arg.route.paths[1].steps[2]
    /\ res.arg.route.paths[1].steps[2].polyline = <<>>
    /\ res.val.polyline = << <<Num(1), Num(1)>>, <<Num(2), Num(2)>> >>

---------------------------------------------------------------------------
\* Start-up, statement by statement: initDatabase awaits connectDatabase,
\* createTables and ensureAdminUser; the server listens once it resolved

AllTables == {TableOrder[i] : i \in 1..Len(TableOrder)}

\* reject(err) of the promise initDatabase returns (the first settlement wins)
RejectInit(b) == [b EXCEPT !.settled = IF @ = "pending" THEN "rejected" ELSE @]

\* connectDatabase: db is assigned the handle at once, the callback of
\* new sqlite3.Database resolves or rejects
connectDatabase(ok) ==
    /\ boot.pc = "start"
    /\ db' = TRUE
    /\ boot' = IF ok THEN [boot EXCEPT !.pc = "connected"]
               ELSE [RejectInit(boot) EXCEPT !.pc = "end"]
    /\ UNCHANGED <<routes, markers, lastRouteId, lastMarkerId, now, search, res, users, req>>

\* createTables: the next CREATE TABLE IF NOT EXISTS statement and its callback
createTables(ok) ==
    /\ boot.pc = "connected"
    /\ LET k == Cardinality(boot.tables) + 1
       IN  boot' = IF ok
                   THEN [boot EXCEPT !.tables = @ \cup {TableOrder[k]},
                                     !.pc = IF k = Len(TableOrder) THEN "tables" ELSE "connected"]
                   ELSE [RejectInit(boot) EXCEPT !.pc = "end"]
    /\ UNCHANGED <<db, routes, markers, lastRouteId, lastMarkerId, now, search, res, users, req>>

\* ensureAdminUser: the callback of SELECT id FROM users WHERE username = ?;
\* when there is no row the INSERT of the administrator is issued, and in
\* both cases createReadOnlyUsers is called at once
ensureAdminUser(ok) ==
    /\ boot.pc = "tables"
    /\ boot' = IF ~ok THEN [RejectInit(boot) EXCEPT !.pc = "end"]
               ELSE IF UsernameTaken(users, AdminUsername)
                    THEN [boot EXCEPT !.pc = "viewers"]
                    ELSE [boot EXCEPT !.pc = "viewers", !.adminInsert = "pending"]
    /\ UNCHANGED <<db, routes, markers, lastRouteId, lastMarkerId, now, search, res, users, req>>

\* the callback of the administrator's INSERT, which nothing waits for
adminInsertCallback(ok) ==
    /\ boot.adminInsert = "pending"
    /\ IF ok /\ ~UsernameTaken(users, AdminUsername)
       THEN /\ users' = users \cup {UserRow(users, AdminUsername, Hash(AdminPassword), 1)}
            /\ boot' = [boot EXCEPT !.adminInsert = "done"]
       ELSE /\ users' = users
            /\ boot' = [RejectInit(boot) EXCEPT !.adminInsert = "failed"]
    /\ UNCHANGED <<db, routes, markers, lastRouteId, lastMarkerId, now, search, res, req>>

\* createReadOnlyUsers: the next user of the loop; an error of its INSERT OR
\* IGNORE is counted and swallowed
createReadOnlyUsers(ok) ==
    /\ boot.pc = "viewers"
    /\ boot.viewers < Len(ReadOnlyUsers)
    /\ LET user == ReadOnlyUsers[boot.viewers + 1]
       IN  users' = IF ok THEN InsertOrIgnore(users, user.username, Hash(user.password), 0)
                    ELSE users
    /\ boot' = [boot EXCEPT !.viewers = @ + 1]
    /\ UNCHANGED <<db, routes, markers, lastRouteId, lastMarkerId, now, search, res, req>>

\* createReadOnlyUsers().then(resolve), then resolve() of initDatabase
initDatabaseResolves ==
    /\ boot.pc = "viewers"
    /\ boot.viewers = Len(ReadOnlyUsers)
    /\ boot' = [boot EXCEPT !.pc = "end",
                            !.settled = IF @ = "pending" THEN "resolved" ELSE @]
    /\ UNCHANGED <<db, routes, markers, lastRouteId, lastMarkerId, now, search, res, users, req>>

\* initDatabase().then(() => { app.listen(PORT, HOST, ...) })
appListen ==
    /\ boot.settled = "resolved"
    /\ ~boot.listening
    /\ boot' = [boot EXCEPT !.listening = TRUE]
    /\ UNCHANGED <<db, routes, markers, lastRouteId, lastMarkerId, now, search, res, users, req>>

\* the users table a former run of the process left in the file
FormerUsers ==
    {{}, SeededUsers({}), WithReadOnlyUsers({}, 1),
     {UserRow({}, AdminUsername, Hash(AdminPassword), 1)}}

InitBoot ==
    /\ users \in FormerUsers
    /\ boot = BootIdle
    /\ req = NoRequest
    /\ db = FALSE
    /\ routes = {}
    /\ markers = {}
    /\ lastRouteId = 0
    /\ lastMarkerId = 0
    /\ now = 0
    /\ search = NoSearch
    /\ res = Settled("none", "none", "none", <<>>, <<>>, <<>>)

NextBoot ==
    \/ \E ok \in BOOLEAN : connectDatabase(ok)
    \/ \E ok \in BOOLEAN : createTables(ok)
    \/ \E ok \in BOOLEAN : ensureAdminUser(ok)
    \/ \E ok \in BOOLEAN : adminInsertCallback(ok)
    \/ \E ok \in BOOLEAN : createReadOnlyUsers(ok)
    \/ initDatabaseResolves
    \/ appListen

SpecBoot == InitBoot /\ [][NextBoot]_vars

\* C17: when the server starts listening the three tables exist and the
\* administrator's row (username 'admin', is_admin = 1) is in the users
\* table, and initDatabase has not resolved while the administrator's INSERT
\* is pending or has failed
AdminProvisioned ==
    \E u \in users : u.username = <<"admin">> /\ u.is_admin = 1
C17_BootstrapComplete ==
    /\ boot.listening =>
            /\ boot.tables = {"routes", "route_markers", "users"}
            /\ AdminProvisioned
    /\ boot.settled = "resolved" => boot.adminInsert \notin {"pending", "failed"}

---------------------------------------------------------------------------
\* Listing and statistics

\* filters of getRoutesFromDB
ListFilters ==
    { EmptyObject, [type |-> <<"driving">>], [search |-> <<"a">>],
      [page |-> 2, limit |-> 1], [type |-> <<"walking">>, search |-> <<"b">>] }

PageDefault == 1
LimitDefault == 20

\* WHERE 1=1 [AND route_type = ?] [AND name LIKE ?]; an absent or empty type
\* or search adds no condition
ListMatches(row, filters) ==
    /\ ~FalsyText(filters, "type") => row.route_type = filters.type
    /\ ~FalsyText(filters, "search") => Like(row.name, KeywordPattern(filters.search))

\* SELECT * FROM routes WHERE ... ORDER BY created_at DESC LIMIT ? OFFSET ?
ListQuery(table, filters) ==
    LET page == Destructure(filters, "page", PageDefault)
        limit == Destructure(filters, "limit", LimitDefault)
    IN  { LimitOffset(rows, limit, (page - 1) * limit) :
            rows \in Orderings({r \in table : ListMatches(r, filters)}, RouteBefore) }

\* rows.map(...) of getRoutesFromDB: creator is created_by as it is
ListView(row) == RouteView(row, row.created_by)

getRoutesFromDB(filters) ==
    /\ UNCHANGED bootVars
    /\ UNCHANGED <<routes, markers, lastRouteId, lastMarkerId, now>>
    /\ IF ~db THEN
            /\ res' = Rejected("getRoutes", ErrNotConnected, <<>>, filters)
            /\ UNCHANGED <<db, search>>
       ELSE \E rows \in ListQuery(routes, filters) :
            IF \E i \in 1..Len(rows) : RowParseThrows(rows[i]) THEN
                \* JSON.parse throws inside the db.all callback
                /\ res' = Uncaught("getRoutes", "SyntaxError", <<"SELECT routes">>, filters)
                /\ db' = FALSE
                /\ search' = NoSearch
            ELSE
                /\ res' = Resolved("getRoutes", <<"SELECT routes">>, filters,
                                   [i \in 1..Len(rows) |-> ListView(rows[i])])
                /\ UNCHANGED <<db, search>>

\* SUM(distance) of a group
RECURSIVE SumDistance(_)
SumDistance(group) ==
    IF group = {} THEN 0
    ELSE LET r == CHOOSE x \in group : TRUE
         IN  r.distance + SumDistance(group \ {r})

\* SELECT COUNT(*) as total_routes, SUM(distance) as total_distance,
\* AVG(distance) as avg_distance, route_type, COUNT(*) as type_count
\* FROM routes GROUP BY route_type: one row a group, the average kept as the
\* fraction it is
StatsRows(table) ==
    { LET group == {r \in table : r.route_type = t}
      IN  [ total_routes |-> Cardinality(group),
            total_distance |-> SumDistance(group),
            avg_distance |-> [num |-> SumDistance(group), den |-> Cardinality(group)],
            route_type |-> t,
            type_count |-> Cardinality(group) ] :
      t \in {r.route_type : r \in table} }

getRouteStatsFromDB ==
    /\ UNCHANGED bootVars
    /\ UNCHANGED <<db, routes, markers, lastRouteId, lastMarkerId, now, search>>
    /\ IF ~db THEN res' = Rejected("getRouteStats", ErrNotConnected, <<>>, <<>>)
       ELSE res' = Resolved("getRouteStats", <<"SELECT routes">>, <<>>, StatsRows(routes))

\* every store operation, called before initDatabase
NextNotReady ==
    \/ Tick
    \/ \E routeData \in RouteInputs : saveRouteToDB(routeData)
    \/ \E filters \in ListFilters : getRoutesFromDB(filters)
    \/ \E id \in RouteIds : getRouteByIdFromDB(id)
    \/ \E id \in RouteIds, updates \in RouteUpdates : updateRouteInDB(id, updates)
    \/ \E id \in RouteIds : deleteRouteFromDB(id)
    \/ getRouteStatsFromDB
    \/ \E routeId \in RouteIds, markerData \in MarkerInputs : saveRouteMarkerToDB(routeId, markerData)
    \/ \E routeId \in RouteIds : getRouteMarkersFromDB(routeId)
    \/ \E markerId \in MarkerIds, updates \in MarkerUpdates : updateRouteMarkerInDB(markerId, updates)
    \/ \E markerId \in MarkerIds : deleteRouteMarkerFromDB(markerId)
    \/ \E keyword \in Keywords, page \in 1..MaxPage, limit \in 1..MaxLimit :
            searchCount(keyword, page, limit)

SpecNotReady == Init /\ [][NextNotReady]_vars

\* C18: every store operation called while the handle is not set is rejected
\* with the store-not-ready error, the same for every operation, before any
\* statement, and leaves the store as it was
C18_NotReadyRejected ==
    [][(~db /\ res' # res) =>
            /\ res'.outcome = "rejected"
            /\ res'.err = "db_not_connected"
            /\ res'.sql = <<>>
            /\ StoreUnchanged]_vars

---------------------------------------------------------------------------
\* Search with keywords that have whitespace around them

PaddedKeywords == {<<"b">>, <<" ", "b">>, <<"b", " ">>, <<" ">>}

NextKeyword ==
    \/ initDatabase
    \/ \E routeData \in {RouteMinimal, RouteFull} : saveRouteToDB(routeData)
    \/ \E keyword \in PaddedKeywords, page \in 1..MaxPage, limit \in 1..MaxLimit :
            searchCount(keyword, page, limit)
    \/ searchData

SpecKeyword == Init /\ [][NextKeyword]_vars

\* needle occurs in text as a run of consecutive characters
Contains(text, needle) ==
    \E i \in 0..(Len(text) - Len(needle)) : SubSeq(text, i + 1, i + Len(needle)) = needle

\* the stated predicate: the keyword is empty or whitespace only, or the
\* keyword without its surrounding whitespace occurs in one of the five columns
TrimmedKeywordMatches(row, keyword) ==
    \/ Trim(keyword) = <<>>
    \/ \E column \in {"name", "description", "city", "district", "created_by"} :
            Contains(row[column], Trim(keyword))

\* C19: a search matches a route exactly when the keyword is empty or
\* whitespace only or, trimmed, occurs in name, description, city, district
\* or created_by: total counts exactly these routes and every returned route
\* is one of them
C19_TrimmedKeywordPredicate ==
    CleanSearchResolved =>
        /\ res.val.total =
                Cardinality({r \in routes : TrimmedKeywordMatches(r, res.arg.keyword)})
        /\ \A i \in 1..Len(res.val.routes) :
                \E r \in routes :
                    /\ r.id = res.val.routes[i].id
                    /\ TrimmedKeywordMatches(r, res.arg.keyword)

\* C20: a search issues its data query only after its count query completed
\* with a count above 0; when the count is 0 it resolves with no routes and
\* total 0 after the count query alone; when the count query fails it rejects
\* with that error after the count query alone
SearchStarts ==
    /\ db
    /\ search.phase = "idle"
    /\ search'.phase = "counted" \/ (res' # res /\ res'.op = "search")
MatchingRoutes(keyword) == Cardinality({r \in routes : KeywordMatches(r, keyword)})
C20_CountBeforeData ==
    [][SearchStarts =>
        IF search'.phase = "counted"
        THEN /\ MatchingRoutes(search'.arg.keyword) > 0
             /\ search'.total = MatchingRoutes(search'.arg.keyword)
             /\ res' = res
        ELSE /\ res'.sql = <<"COUNT routes">>
             /\ \/ /\ res'.outcome = "rejected"
                   /\ res'.err = "SQLITE_ERROR"
                \/ /\ res'.outcome = "resolved"
                   /\ MatchingRoutes(res'.arg.keyword) = 0
                   /\ res'.val.routes = <<>>
                   /\ res'.val.total = 0]_vars

\* C20 witness: over a store with routes, a search whose keyword matches none
\* resolved empty after the count query alone
C20_Witness ==
    /\ routes # {}
    /\ res.op = "search"
    /\ res.outcome = "resolved"
    /\ res.sql = <<"COUNT routes">>
    /\ res.val.total = 0
    /\ res.val.routes = <<>>
    /\ search.phase = "idle"

---------------------------------------------------------------------------
\* The HTTP interface: adminOnly and the routes of routes and markers

\* tokens a request may carry: the payload jwt.sign wrote, whether the
\* signature is that of JWT_SECRET and whether expiresIn has passed
Token(payload, signed, expired) ==
    [payload |-> payload, signed |-> signed, expired |-> expired, empty |-> FALSE]
NoToken == [payload |-> EmptyObject, signed |-> FALSE, expired |-> FALSE, empty |-> TRUE]
AdminToken == Token([id |-> 1, is_admin |-> 1], TRUE, FALSE)
ViewerToken == Token([id |-> 2, is_admin |-> 0], TRUE, FALSE)
NoClaimToken == Token([id |-> 2], TRUE, FALSE)
ExpiredAdminToken == Token([id |-> 1, is_admin |-> 1], TRUE, TRUE)
ForgedAdminToken == Token([id |-> 1, is_admin |-> 1], FALSE, FALSE)

\* req.headers.authorization: absent, or a scheme ('Bearer ' or none) and
\* the text after it
NoHeader == [present |-> FALSE, scheme |-> "", token |-> NoToken]
HeaderOf(scheme, token) == [present |-> TRUE, scheme |-> scheme, token |-> token]
Authorizations ==
    { NoHeader, HeaderOf("Bearer ", NoToken),
      HeaderOf("Bearer ", AdminToken), HeaderOf("", AdminToken),
      HeaderOf("Bearer ", ViewerToken), HeaderOf("Bearer ", NoClaimToken),
      HeaderOf("Bearer ", ExpiredAdminToken), HeaderOf("Bearer ", ForgedAdminToken) }

\* !auth: no header, or the empty string
NoAuthorization(auth) == ~auth.present \/ (auth.scheme = "" /\ auth.token.empty)

\* jwt.verify(token, JWT_SECRET) throws
VerifyThrows(token) == token.empty \/ ~token.signed \/ token.expired

\* !payload.is_admin
NotAdmin(payload) == "is_admin" \notin DOMAIN payload \/ payload.is_admin = 0

\* faulty variant: any verified token passes
adminOnlyAnyToken(auth) ==
    IF NoAuthorization(auth) THEN "401"
    ELSE IF VerifyThrows(auth.token) THEN "401"
    ELSE "next"
\* adminOnly: the status it responds with, or "next"; auth.replace('Bearer ', '')
\* leaves auth.token
adminOnly(auth) ==
    IF NoAuthorization(auth) THEN "401"
    ELSE IF VerifyThrows(auth.token) THEN "401"
    ELSE IF NotAdmin(auth.token.payload) THEN "403"
    ELSE "next"

\* the routes registered with adminOnly before their handler
GuardedRoutes ==
    { "POST /api/routes", "POST /api/routes/:routeId/markers", "PUT /api/routes/:id",
      "DELETE /api/routes/:id", "PUT /api/markers/:markerId", "DELETE /api/markers/:markerId" }
\* the routes registered with their handler alone
OpenRoutes ==
    { "GET /api/routes", "GET /api/routes/search", "GET /api/routes/:id",
      "GET /api/routes-stats", "GET /api/routes/:routeId/markers" }

\* path parameters
IdParams == {<<"1">>}
\* parseInt(id) of a parameter of digits
parseInt(param) == parseFloat(param).v

\* a request arrives and the middleware of its route runs: adminOnly answers it,
\* or next() hands it to the handler with req.user set
receive(route, auth, param) ==
    /\ req' = IF route \in GuardedRoutes /\ adminOnly(auth) # "next"
              THEN [stage |-> "responded", route |-> route, auth |-> auth,
                    status |-> adminOnly(auth)]
              ELSE [stage |-> "handler", route |-> route, auth |-> auth, param |-> param]
    /\ UNCHANGED <<db, routes, markers, lastRouteId, lastMarkerId, now, search, res, users, boot>>

\* the handler of route runs for the request next() handed over (the same
\* request sent again runs it again)
Handling(route) == req.stage = "handler" /\ req.route = route

\* POST /api/routes: no body parser is on the route, req.body is undefined
\* and routeData.name throws inside the try: 500, and the store is not called
postRoute ==
    /\ Handling("POST /api/routes")
    /\ req' = [stage |-> "responded", route |-> req.route, auth |-> req.auth,
                status |-> "500"]
    /\ UNCHANGED <<db, routes, markers, lastRouteId, lastMarkerId, now, search, res, users, boot>>

\* POST /api/routes/:routeId/markers: req.body is undefined, and the
\* destructuring of markerData throws inside saveRouteMarkerToDB's executor
postMarker ==
    /\ Handling("POST /api/routes/:routeId/markers")
    /\ res' = Rejected("saveMarker", IF ~db THEN ErrNotConnected ELSE ErrTypeError, <<>>,
                       [routeId |-> parseInt(req.param), markerData |-> EmptyObject])
    /\ UNCHANGED <<db, routes, markers, lastRouteId, lastMarkerId, now, search, users, boot, req>>

\* PUT /api/routes/:id
putRoute(updates) ==
    /\ Handling("PUT /api/routes/:id")
    /\ updateRouteInDB(parseInt(req.param), updates)

\* DELETE /api/routes/:id
deleteRoute ==
    /\ Handling("DELETE /api/routes/:id")
    /\ deleteRouteFromDB(parseInt(req.param))

\* PUT /api/markers/:markerId
putMarker(updates) ==
    /\ Handling("PUT /api/markers/:markerId")
    /\ updateRouteMarkerInDB(parseInt(req.param), updates)

\* DELETE /api/markers/:markerId
deleteMarker ==
    /\ Handling("DELETE /api/markers/:markerId")
    /\ deleteRouteMarkerFromDB(parseInt(req.param))

\* GET /api/routes: page and limit default to 1 and 20, an empty type or
\* search becomes null
getRoutes(query) ==
    /\ Handling("GET /api/routes")
    /\ getRoutesFromDB(Spread([page |-> PageDefault, limit |-> LimitDefault], query))

\* GET /api/routes/search
getSearch(keyword, page, limit) ==
    /\ Handling("GET /api/routes/search")
    /\ searchCount(keyword, page, limit)

\* GET /api/routes/:id
getRoute ==
    /\ Handling("GET /api/routes/:id")
    /\ getRouteByIdFromDB(parseInt(req.param))

\* GET /api/routes-stats
getRoutesStats ==
    /\ Handling("GET /api/routes-stats")
    /\ getRouteStatsFromDB

\* GET /api/routes/:routeId/markers
getMarkers ==
    /\ Handling("GET /api/routes/:routeId/markers")
    /\ getRouteMarkersFromDB(parseInt(req.param))

\* requests of every kind over a store that holds routes (the search is for
\* a keyword no route has, and ends with its count)
NextHttp ==
    \/ initDatabase
    \/ saveRouteToDB(RouteMinimal)
    \/ \E route \in GuardedRoutes \cup OpenRoutes, auth \in Authorizations, param \in IdParams :
            receive(route, auth, param)
    \/ postRoute
    \/ postMarker
    \/ putRoute(RouteUpdateMixed)
    \/ deleteRoute
    \/ putMarker(MarkerUpdateMixed)
    \/ deleteMarker
    \/ getRoutes(EmptyObject)
    \/ getSearch(<<"z">>, 1, MaxLimit)
    \/ getRoute
    \/ getRoutesStats
    \/ getMarkers

SpecHttp == Init /\ [][NextHttp]_vars


\* C21: a request that creates, updates or deletes a route or a marker and
\* does not carry a valid token with a truthy is_admin claim is answered by
\* adminOnly, 401 without a header or with an invalid or expired token, 403
\* with a valid token that is not an administrator's, with the store left as
\* it was and no store operation called; such an operation is only ever
\* called for a request with an administrator's valid token; the requests
\* that list, fetch, search or read statistics reach their handler whatever
\* they carry
ValidToken(auth) ==
    auth.present /\ ~auth.token.empty /\ auth.token.signed /\ ~auth.token.expired
AdminClaim(auth) ==
    "is_admin" \in DOMAIN auth.token.payload /\ auth.token.payload.is_admin # 0
WritingRoutes ==
    { "POST /api/routes", "POST /api/routes/:routeId/markers", "PUT /api/routes/:id",
      "DELETE /api/routes/:id", "PUT /api/markers/:markerId", "DELETE /api/markers/:markerId" }
\* no call settled in the step: the last settlement is the one it was
NoCallSettled ==
    /\ res'.op = res.op
    /\ res'.outcome = res.outcome
    /\ res'.err = res.err
    /\ res'.sql = res.sql
    /\ res'.arg = res.arg
    /\ res'.val = res.val
C21_AdminOnlyWrites ==
    [][/\ req' # req =>
            IF req'.route \in WritingRoutes
            THEN IF ValidToken(req'.auth) /\ AdminClaim(req'.auth)
                 THEN req'.stage = "responded" => req'.status \notin {"401", "403"}
                 ELSE /\ req'.stage = "responded"
                      /\ req'.status = IF ValidToken(req'.auth) THEN "403" ELSE "401"
                      /\ StoreUnchanged
                      /\ NoCallSettled
            ELSE req'.stage = "handler"
       /\ (req.stage = "handler" /\ req.route \in WritingRoutes) =>
            ValidToken(req.auth) /\ AdminClaim(req.auth)
       /\ (~NoCallSettled /\ res'.op \in {"updateRoute", "deleteRoute", "saveMarker",
                                      "updateMarker", "deleteMarker"}) =>
            /\ req.stage = "handler"
            /\ req.route \in WritingRoutes
            /\ ValidToken(req.auth) /\ AdminClaim(req.auth)]_vars

\* C21 witness: over a store with a route, a request to delete it that
\* carries the valid token of a user who is no administrator was answered 403
C21_Witness ==
    /\ routes # {}
    /\ req.stage = "responded"
    /\ req.route = "DELETE /api/routes/:id"
    /\ req.auth = HeaderOf("Bearer ", ViewerToken)
    /\ req.status = "403"


\* C22: the markers getRouteMarkersFromDB(routeId) resolves with are the
\* markers whose route_id is routeId, each once and no other, the more
\* important first and, among equally important ones, the later created first
C22_MarkersOfRouteOrdered ==
    (res.op = "getRouteMarkers" /\ res.outcome = "resolved") =>
        LET rows == res.val IN
        /\ {rows[i] : i \in 1..Len(rows)} = {m \in markers : m.route_id = res.arg}
        /\ \A i, j \in 1..Len(rows) : i # j => rows[i] # rows[j]
        /\ \A i, j \in 1..Len(rows) :
                i < j =>
                    \/ rows[i].importance > rows[j].importance
                    \/ /\ rows[i].importance = rows[j].importance
                       /\ rows[i].created_at >= rows[j].created_at

\* C22 witness: a route's two markers listed, the more important and earlier
\* created one first, with a marker of another route in the table
C22_Witness ==
    /\ res.op = "getRouteMarkers"
    /\ res.outcome = "resolved"
    /\ Len(res.val) = 2
    /\ res.val[1].importance > res.val[2].importance
    /\ res.val[1].created_at < res.val[2].created_at

---------------------------------------------------------------------------
\* Listing with filters

RouteWalking ==
    Spread(RouteMinimal, [name |-> <<"a", "b">>, route_type |-> <<"walking">>])

\* filters whose search holds a character LIKE reads as a wildcard
WildcardFilters == { [search |-> <<"_">>], [search |-> <<"%">>, limit |-> 1] }

NextList ==
    \/ initDatabase
    \/ Tick
    \/ \E routeData \in {RouteMinimal, RouteFull, RouteWalking} : saveRouteToDB(routeData)
    \/ \E filters \in ListFilters \cup WildcardFilters : getRoutesFromDB(filters)

SpecList == Init /\ [][NextList]_vars

\* needle occurs in text, letters compared without their case
ContainsFolded(text, needle) ==
    \E i \in 0..(Len(text) - Len(needle)) :
        \A k \in 1..Len(needle) : Fold(text[i + k]) = Fold(needle[k])

\* the stated filter: route_type is the type and the name contains the
\* search, a filter that is not supplied restricting nothing
StatedListMatches(row, filters) ==
    /\ ("type" \in DOMAIN filters /\ filters.type # <<>>) => row.route_type = filters.type
    /\ ("search" \in DOMAIN filters /\ filters.search # <<>>) =>
            ContainsFolded(row.name, filters.search)

\* a resolved listing with filters of filterSet is the stated page
ListedAsStated(filterSet) ==
    (res.op = "getRoutes" /\ res.outcome = "resolved" /\ res.arg \in filterSet) =>
        LET filters == res.arg
            page == IF "page" \in DOMAIN filters THEN filters.page ELSE 1
            limit == IF "limit" \in DOMAIN filters THEN filters.limit ELSE 20
            stated == {r \in routes : StatedListMatches(r, filters)}
        IN  \E rows \in Orderings(stated, RouteBefore) :
                LET from == (page - 1) * limit + 1
                    to == Min(Len(rows), (page - 1) * limit + limit)
                IN  /\ Len(res.val) = Max(0, to - from + 1)
                    /\ \A i \in 1..Len(res.val) : res.val[i].id = rows[from + i - 1].id

\* C23: getRoutesFromDB resolves with the routes that satisfy every supplied
\* filter (route_type is the type, the name contains the search), the later
\* created first, cut to the at most limit rows from offset (page - 1) * limit
C23_ListFilteredPage == ListedAsStated(ListFilters \cup WildcardFilters)

---------------------------------------------------------------------------
\* Planning a route: RouteService.planRoute over AMapService.planDrivingRoute

\* the messages of the errors, in ASCII stand-ins
AmapErrorPrefix == <<"E", ":", " ">>
UnknownError == <<"u">>
PlanFailedPrefix == <<"F", ":", " ">>
TooFewPointsMessage == <<"2">>
NoPathMessage == <<"n">>
TimeoutMessage == <<"t">>
ErrPlanFailed == "plan_failed"

\* the one request planDrivingRoute sends
ProviderCall == "GET /direction/driving"

\* the message of the error thrown on a status other than '1', without the
\* provider's text
ProviderErrorMessageGeneric(data) == AmapErrorPrefix \o UnknownError

\* `AMAP error: ${data.info || 'unknown error'}`
ProviderErrorMessage(data) ==
    AmapErrorPrefix \o (IF FalsyText(data, "info") THEN UnknownError ELSE data.info)

\* what planDrivingRoute does with the provider's answer: the error it throws
\* (and throws again from its catch block) or the plan it returns
planDrivingRouteAnswered(data) ==
    IF data.status # "1"
    THEN [ok |-> FALSE, err |-> ErrProvider, message |-> ProviderErrorMessage(data)]
    ELSE LET r == parseRealRouteData(data)
         IN  IF r.ok THEN r ELSE [ok |-> FALSE, err |-> r.err, message |-> NoPathMessage]

PlanPoint == [lng |-> 1, lat |-> 2]
PlanPoints == {<<PlanPoint>>, <<PlanPoint, PlanPoint>>, <<PlanPoint, PlanPoint, PlanPoint>>}

\* the provider's answers: a refusal with a text, with an empty text and
\* without a text, and the answers of the normalisation
RefusalTexts == {<<"I", "N", "V">>, <<"k">>, <<>>}
PlanResponses ==
    {[status |-> "0", info |-> text] : text \in RefusalTexts}
        \cup {[status |-> "0"], [status |-> "2", info |-> <<"I", "N", "V">>]}
        \cup StructuralResponses
PlanReplies ==
    {[kind |-> "data", data |-> data] : data \in PlanResponses} \cup {[kind |-> "network"]}

PlanInputs ==
    {[points |-> points, reply |-> reply] : points \in PlanPoints, reply \in PlanReplies}
        \cup {[reply |-> reply] : reply \in {[kind |-> "network"]}}

InitPlan ==
    /\ users = {}
    /\ boot = BootIdle
    /\ req = NoRequest
    /\ db = FALSE
    /\ routes = {}
    /\ markers = {}
    /\ lastRouteId = 0
    /\ lastMarkerId = 0
    /\ now = 0
    /\ search = NoSearch
    /\ res \in {Pending(arg) : arg \in PlanInputs}

\* throw new Error(`plan failed: ${error.message}`) out of planRoute
PlanFailed(sql, arg, message) ==
    Settled("planRoute", "rejected", ErrPlanFailed, sql, arg, PlanFailedPrefix \o message)

\* planRoute up to the await of planDrivingRoute, which runs up to its await
\* of axios.get
planRoute ==
    /\ UNCHANGED bootVars
    /\ res.op = "input"
    /\ res' = IF "points" \notin DOMAIN res.arg \/ Len(res.arg.points) < 2
              THEN PlanFailed(<<>>, res.arg, TooFewPointsMessage)
              ELSE Settled("planRoute", "awaiting", "none", <<ProviderCall>>, res.arg, <<>>)
    /\ UNCHANGED <<db, routes, markers, lastRouteId, lastMarkerId, now, search>>

\* axios.get answers: planDrivingRoute returns or throws, planRoute returns
\* the plan with the request's points or throws the wrapped error
axiosAnswers ==
    /\ UNCHANGED bootVars
    /\ res.op = "planRoute"
    /\ res.outcome = "awaiting"
    /\ res.arg.reply.kind = "data"
    /\ LET r == planDrivingRouteAnswered(res.arg.reply.data)
       IN  res' = IF r.ok
                  THEN Resolved("planRoute", res.sql, res.arg,
                                [success |-> TRUE,
                                 data |-> Spread(r.val, [points |-> res.arg.points,
                                                         routeType |-> "driving",
                                                         strategy |-> "0",
                                                         calculatedAt |-> now])])
                  ELSE PlanFailed(res.sql, res.arg, r.message)
    /\ UNCHANGED <<db, routes, markers, lastRouteId, lastMarkerId, now, search>>

\* axios.get fails (no answer within the timeout, no connection)
axiosFails ==
    /\ UNCHANGED bootVars
    /\ res.op = "planRoute"
    /\ res.outcome = "awaiting"
    /\ res.arg.reply.kind = "network"
    /\ res' = PlanFailed(res.sql, res.arg, TimeoutMessage)
    /\ UNCHANGED <<db, routes, markers, lastRouteId, lastMarkerId, now, search>>

NextPlan ==
    \/ planRoute
    \/ axiosAnswers
    \/ axiosFails

SpecPlan == InitPlan /\ [][NextPlan]_vars

\* the provider has answered the call with a status other than '1'
Refused ==
    /\ res.op = "planRoute"
    /\ res.outcome # "awaiting"
    /\ res.sql # <<>>
    /\ res.arg.reply.kind = "data"
    /\ res.arg.reply.data.status # "1"

\* C24: when the provider answers with a status other than '1', the call is
\* rejected (no plan is returned), the error's message carries the provider's
\* own text when it sent one, the provider was called exactly once, and
\* planRoute hands the failure on to its caller
C24_RefusalPropagates ==
    Refused =>
        /\ res.outcome = "rejected"
        /\ res.err = ErrPlanFailed
        /\ res.sql = <<ProviderCall>>
        /\ Contains(res.val, AmapErrorPrefix)
        /\ ~FalsyText(res.arg.reply.data, "info")
               => Contains(res.val, res.arg.reply.data.info)

C24_Witness ==
    /\ Refused
    /\ res.arg.reply.data.status = "0"
    /\ res.arg.reply.data.info = <<"I", "N", "V">>
    /\ res.val = PlanFailedPrefix \o AmapErrorPrefix \o <<"I", "N", "V">>

---------------------------------------------------------------------------
\* Start-up over the file of a former run

\* the process ends and starts again: the module's handle and the start-up
\* begin anew, an INSERT not yet completed is lost, the file keeps its rows
processRestart ==
    /\ boot.pc # "start"
    /\ db' = FALSE
    /\ boot' = BootIdle
    /\ search' = NoSearch
    /\ req' = NoRequest
    /\ UNCHANGED <<routes, markers, lastRouteId, lastMarkerId, now, res, users>>

NextRestart ==
    \/ initDatabase
    \/ \E ok \in BOOLEAN : connectDatabase(ok)
    \/ \E ok \in BOOLEAN : createTables(ok)
    \/ \E ok \in BOOLEAN : ensureAdminUser(ok)
    \/ \E ok \in BOOLEAN : adminInsertCallback(ok)
    \/ \E ok \in BOOLEAN : createReadOnlyUsers(ok)
    \/ initDatabaseResolves
    \/ appListen
    \/ processRestart
    \/ saveRouteToDB(RouteMinimal)
    \/ saveRouteMarkerToDB(1, MarkerMinimal)

SpecRestart == Init /\ [][NextRestart]_vars

SeededUsernames ==
    {AdminUsername} \cup {ReadOnlyUsers[i].username : i \in 1..Len(ReadOnlyUsers)}
\* the users table holds every default user
Bootstrapped == \A name \in SeededUsernames : \E u \in users : u.username = name
OneRowPerUsername == \A u, v \in users : u.username = v.username => u = v
\* a step of the start-up
BootStep == boot' # boot /\ boot.pc # "end"

\* C25: no state has two user rows of one username; a start-up leaves the
\* routes and the markers as they are; and over a users table that holds every
\* default user it leaves the users as they are, with one row named 'admin',
\* and it resolves unless one of its statements fails
C25_BootstrapIdempotent ==
    /\ []OneRowPerUsername
    /\ [][BootStep =>
            /\ routes' = routes
            /\ markers' = markers
            /\ Bootstrapped =>
                /\ users' = users
                /\ Cardinality({u \in users' : u.username = <<"admin">>}) = 1
                /\ boot'.pc = "end" /\ boot.pc = "viewers" => boot'.settled = "resolved"
                /\ boot'.settled = "rejected" =>
                        \/ connectDatabase(FALSE)
                        \/ createTables(FALSE)
                        \/ ensureAdminUser(FALSE)]_vars

\* C25 witness: a start-up that found the administrator and every default
\* user has resolved, the route and the marker of the former run in place
C25_Witness ==
    /\ boot.pc = "end"
    /\ boot.settled = "resolved"
    /\ boot.adminInsert = "none"
    /\ Bootstrapped
    /\ Cardinality(users) = 4
    /\ routes # {}
    /\ markers # {}

---------------------------------------------------------------------------
\* Search under writes of other requests

\* the search's second statement has run and the search resolved
SearchPageRead ==
    /\ search.phase = "counted"
    /\ search'.phase = "idle"
    /\ res'.op = "search"
    /\ res'.outcome = "resolved"

\* C26: whatever was written between the search's two statements, the
\* resolved total is the number of routes matching the keyword in the store
\* the page was read from, and a page within that total is not short of rows
C26_SearchAtomic ==
    [][SearchPageRead =>
        LET total == res'.val.total
            offset == (res'.arg.page - 1) * res'.arg.limit
        IN  /\ total = MatchingRoutes(res'.arg.keyword)
            /\ offset < total =>
                    Len(res'.val.routes) = Min(res'.arg.limit, total - offset)]_vars

---------------------------------------------------------------------------
\* Creation from payloads with an id of their own and with coordinates at 0

\* payloads with an id the store never assigns here
RouteWithId == Spread(RouteMinimal, [id |-> 9])
MarkerWithId == Spread(MarkerMinimal, [id |-> 9, route_id |-> 9])
RouteZeroStart == Spread(RouteMinimal, [start_lng |-> 0])
RouteZeroEnd == Spread(RouteMinimal, [end_lng |-> 0])
MarkerZeroLng == Spread(MarkerMinimal, [lng |-> 0])
MarkerZeroLat == Spread(MarkerMinimal, [lat |-> 0])

PayloadRoutes == {RouteMinimal, RouteWithId, RouteZeroStart, RouteZeroEnd}
PayloadMarkers == {MarkerMinimal, MarkerWithId, MarkerZeroLng, MarkerZeroLat}

NextPayload ==
    \/ initDatabase
    \/ \E routeData \in PayloadRoutes : saveRouteToDB(routeData)
    \/ \E routeId \in RouteIds, markerData \in PayloadMarkers :
            saveRouteMarkerToDB(routeId, markerData)

SpecPayload == Init /\ [][NextPayload]_vars

\* C27: a creation that resolved returns the id the store assigned to the
\* row it inserted, which is in the table, and a marker's result carries the
\* routeId argument as route_id, whatever keys the payload has
C27_ReturnedIdIsAssigned ==
    /\ (res.op = "saveRoute" /\ res.outcome = "resolved") =>
            /\ res.val.id = lastRouteId
            /\ \E r \in routes : r.id = res.val.id
    /\ (res.op = "saveMarker" /\ res.outcome = "resolved") =>
            /\ res.val.id = lastMarkerId
            /\ res.val.route_id = res.arg.routeId
            /\ \E m \in markers : m.id = res.val.id /\ m.route_id = res.val.route_id

\* C28: a route with name, waypoints, start_lng and end_lng present, and a
\* marker with lng, lat and name present, is not rejected for a missing
\* field, and is created when the store is connected and its constraints
\* hold, also when a coordinate is 0
C28_ZeroCoordinateAccepted ==
    /\ (res.op = "saveRoute"
            /\ {"name", "waypoints", "start_lng", "end_lng"} \subseteq DOMAIN res.arg) =>
            /\ res.err # ErrRouteRequired
            /\ res.outcome = "rejected" => res.sql # <<>> \/ res.err = ErrNotConnected
    /\ (res.op = "saveMarker"
            /\ {"lng", "lat", "name"} \subseteq DOMAIN res.arg.markerData) =>
            /\ res.err # ErrMarkerRequired
            /\ res.outcome = "rejected" => res.sql # <<>> \/ res.err = ErrNotConnected

---------------------------------------------------------------------------
\* The two seedings of the administrator: server.js opens a connection of
\* its own to the same file, and its callbacks run among those of initDatabase

\* the callback of new sqlite3.Database(dbPath, ...): an error is logged
serverConnected(ok) ==
    /\ boot.seeding = "start"
    /\ boot' = [boot EXCEPT !.seeding = IF ok THEN "connected" ELSE "end"]
    /\ UNCHANGED <<db, routes, markers, lastRouteId, lastMarkerId, now, search, res, users, req>>

\* the callback of CREATE TABLE IF NOT EXISTS users: an error is logged
serverCreateUsers(ok) ==
    /\ boot.seeding = "connected"
    /\ boot' = [boot EXCEPT !.seeding = IF ok THEN "table" ELSE "end"]
    /\ UNCHANGED <<db, routes, markers, lastRouteId, lastMarkerId, now, search, res, users, req>>

\* the callback of SELECT * FROM users WHERE username = "admin": with no
\* row, the password is hashed and the INSERT is issued
serverSelectAdmin(ok) ==
    /\ boot.seeding = "table"
    /\ boot' = [boot EXCEPT !.seeding =
                    IF ok /\ ~UsernameTaken(users, AdminUsername) THEN "inserting" ELSE "end"]
    /\ UNCHANGED <<db, routes, markers, lastRouteId, lastMarkerId, now, search, res, users, req>>

\* the INSERT of the administrator and its callback: an error, the UNIQUE
\* constraint's among them, is logged
serverInsertAdmin(ok) ==
    /\ boot.seeding = "inserting"
    /\ users' = IF ok /\ ~UsernameTaken(users, AdminUsername)
                THEN users \cup {UserRow(users, AdminUsername, Hash(AdminPassword), 1)}
                ELSE users
    /\ boot' = [boot EXCEPT !.seeding = "end"]
    /\ UNCHANGED <<db, routes, markers, lastRouteId, lastMarkerId, now, search, res, req>>

\* both seedings over a new file, every statement succeeding unless a
\* constraint of the schema rejects it
NextSeeding ==
    \/ connectDatabase(TRUE)
    \/ createTables(TRUE)
    \/ ensureAdminUser(TRUE)
    \/ adminInsertCallback(TRUE)
    \/ createReadOnlyUsers(TRUE)
    \/ initDatabaseResolves
    \/ appListen
    \/ serverConnected(TRUE)
    \/ serverCreateUsers(TRUE)
    \/ serverSelectAdmin(TRUE)
    \/ serverInsertAdmin(TRUE)
    \/ processRestart

SpecSeeding == Init /\ [][NextSeeding]_vars

\* both seedings have run to their end
SeedingsOver ==
    /\ boot.pc = "end"
    /\ boot.seeding = "end"
    /\ boot.adminInsert # "pending"

\* C29: however the callbacks of the two seedings interleave, initDatabase
\* is not rejected, it has resolved once both seedings are over, and then
\* one row named 'admin' is in the users table
C29_SeedingRace ==
    /\ boot.settled # "rejected"
    /\ SeedingsOver =>
            /\ boot.settled = "resolved"
            /\ Cardinality({u \in users : u.username = <<"admin">>}) = 1

---------------------------------------------------------------------------
\* The plan of a path without geometry

\* the path has a non-empty polyline of its own or a step with one
HasGeometry(path) ==
    \/ "polyline" \in DOMAIN path /\ path.polyline # <<>>
    \/ /\ "steps" \in DOMAIN path
       /\ \E i \in 1..Len(path.steps) :
            "polyline" \in DOMAIN path.steps[i] /\ path.steps[i].polyline # <<>>

\* the response has a first path whose steps can be read
FirstPathReadable(data) ==
    /\ "route" \in DOMAIN data
    /\ "paths" \in DOMAIN data.route
    /\ data.route.paths # <<>>
    /\ "steps" \in DOMAIN data.route.paths[1]
    /\ \A i \in 1..Len(data.route.paths[1].steps) :
            "instruction" \in DOMAIN data.route.paths[1].steps[i]

\* C30: in every plan bounds is null exactly when the decoded polyline is
\* empty, which is exactly when the first path has no non-empty polyline of
\* its own and no step with one; and a first path without geometry still
\* gives a plan
C30_BoundsNullIffNoGeometry ==
    /\ (Normalized /\ res.outcome = "resolved") =>
            /\ res.val.bounds.isNull <=> res.val.polyline = <<>>
            /\ res.val.polyline = <<>> <=> ~HasGeometry(res.arg.route.paths[1])
    /\ (res.op = "parseRealRouteData"
            /\ FirstPathReadable(res.arg)
            /\ ~HasGeometry(res.arg.route.paths[1])) =>
            /\ res.outcome = "resolved"
            /\ res.val.bounds.isNull

\* C30 witness: a path with an empty polyline of its own and two steps, one
\* with an empty polyline and one with none, gave a plan with no points and
\* null bounds
C30_Witness ==
    /\ res.op = "parseRealRouteData"
    /\ res.outcome = "resolved"
    /\ "polyline" \in DOMAIN res.arg.route.paths[1]
    /\ Len(res.arg.route.paths[1].steps) = 2
    /\ "polyline" \in DOMAIN res.arg.route.paths[1].steps[1]
    /\ "polyline" \notin DOMAIN res.arg.route.paths[1].steps[2]
    /\ ~HasGeometry(res.arg.route.paths[1])
    /\ res.val.polyline = <<>>
    /\ res.val.bounds.isNull
    /\ Len(res.val.steps) = 2

---------------------------------------------------------------------------
\* The whole program: every operation over one store
Next ==
    \/ initDatabase
    \/ Tick
    \/ \E routeData \in RouteInputs : saveRouteToDB(routeData)
    \/ \E id \in RouteIds : getRouteByIdFromDB(id)
    \/ \E id \in RouteIds, updates \in RouteUpdates : updateRouteInDB(id, updates)
    \/ \E id \in RouteIds : deleteRouteFromDB(id)
    \/ \E routeId \in RouteIds, markerData \in MarkerInputs : saveRouteMarkerToDB(routeId, markerData)
    \/ \E routeId \in RouteIds : getRouteMarkersFromDB(routeId)
    \/ \E markerId \in MarkerIds, updates \in MarkerUpdates : updateRouteMarkerInDB(markerId, updates)
    \/ \E markerId \in MarkerIds : deleteRouteMarkerFromDB(markerId)
    \/ \E keyword \in Keywords, page \in 1..MaxPage, limit \in 1..MaxLimit :
            searchCount(keyword, page, limit)
    \/ searchData
    \/ \E filters \in ListFilters : getRoutesFromDB(filters)
    \/ getRouteStatsFromDB
    \/ \E ok \in BOOLEAN : connectDatabase(ok)
    \/ \E ok \in BOOLEAN : createTables(ok)
    \/ \E ok \in BOOLEAN : ensureAdminUser(ok)
    \/ \E ok \in BOOLEAN : adminInsertCallback(ok)
    \/ \E ok \in BOOLEAN : createReadOnlyUsers(ok)
    \/ initDatabaseResolves
    \/ appListen
    \/ callDecodePolyline
    \/ callCalculateBounds
    \/ callParseRealRouteData
    \/ planDrivingRoute
    \/ planDrivingRouteFailed
    \/ planRoute
    \/ axiosAnswers
    \/ axiosFails
    \/ \E route \in GuardedRoutes \cup OpenRoutes, auth \in Authorizations, param \in IdParams :
            receive(route, auth, param)
    \/ postRoute
    \/ postMarker
    \/ \E updates \in RouteUpdates : putRoute(updates)
    \/ deleteRoute
    \/ \E updates \in MarkerUpdates : putMarker(updates)
    \/ deleteMarker
    \/ \E query \in ListFilters : getRoutes(query)
    \/ \E keyword \in Keywords, page \in 1..MaxPage, limit \in 1..MaxLimit :
            getSearch(keyword, page, limit)
    \/ getRoute
    \/ getRoutesStats
    \/ getMarkers
    \/ processRestart
    \/ \E ok \in BOOLEAN : serverConnected(ok)
    \/ \E ok \in BOOLEAN : serverCreateUsers(ok)
    \/ \E ok \in BOOLEAN : serverSelectAdmin(ok)
    \/ \E ok \in BOOLEAN : serverInsertAdmin(ok)

Spec == Init /\ [][Next]_vars

====
